---- MODULE Spec2Model ----
\* ImgStamp (Lane0218/imgstamp): the main-process image pipeline of
\* src/unnamed/part_007 (the current ipc.ts), the window hand-over of
\* src/unnamed/part_004 and the renderer's handlers of
\* src/src/renderer/App.tsx.
\*
\*   SpecRender   one buildStampedImage call: canvas, layout mode, image and
\*                text areas, placement rect, content detection and the text
\*                layer, for every preset, preview or export, a range of
\*                source sizes and a few captions.
\*   SpecDetect   detectContentBounds on pixel data.
\*   Spec         one run of the export:start handler.
\*   SpecOverlap  two overlapping runs of the export:start handler.
\*   SpecFiles    one export run with thumbnail generation, preview and
\*                project save around it, over one shared file system.
\*   SpecView     the renderer's preview effect and the image:preview handler.
\*   SpecTrigger  the renderer's handleExport under repeated triggers.
\*   SpecSaves    two project:save calls whose writeJsonAtomic steps interleave.
\*   SpecEdit     edits, the dirty flag, autosave ticks and manual saves.
\*   SpecSelect   the thumbnail grid: clicks, navigation, pages, resizing.
\*   SpecRecent   recent:add calls one after the other.
\*   SpecLaunch   the launch payload's two deliveries to a new main window.
EXTENDS Integers, Sequences, FiniteSets, TLC

\* ---------------------------------------------------------------------------
\* Arithmetic helpers (JavaScript Math.* on the non-negative rationals used)
\* ---------------------------------------------------------------------------

\* Math.round(p / q) for q > 0: round half up, floor(p/q + 1/2).
RoundDiv(p, q) == (2 * p + q) \div (2 * q)

\* Math.ceil(p / q) for q > 0.
CeilDiv(p, q) == -((-p) \div q)

Max(a, b) == IF a >= b THEN a ELSE b

Min(a, b) == IF a <= b THEN a ELSE b

\* ---------------------------------------------------------------------------
\* Constants of the layout code
\* ---------------------------------------------------------------------------

Sizes == {"5", "5L", "6", "6L"}

EXPORT_SIZE_PX ==
  [s \in Sizes |->
     CASE s = "5"  -> [width |-> 1500, height |-> 1050]
       [] s = "5L" -> [width |-> 1500, height |-> 1125]
       [] s = "6"  -> [width |-> 1800, height |-> 1200]
       [] s = "6L" -> [width |-> 1800, height |-> 1350]]

\* TYPOGRAPHY_RATIOS.font = 0.0225, kept as a fraction of 10000.
FontRatioNum == 225

FontRatioDen == 10000

\* TEXT_BORDER_RATIO = 2.5, TEXT_IMAGE_GAP_MIN_RATIO = 0.3,
\* TEXT_EDGE_SAFE_RATIO = 1.5, all in tenths.
TEXT_BORDER_RATIO == 25

TEXT_IMAGE_GAP_MIN_RATIO == 3

TEXT_EDGE_SAFE_RATIO == 15

\* TEXT_ASCENT_RATIO = 0.8, in tenths.
TEXT_ASCENT_RATIO == 8

RatioDen == 10

\* requiredBorderRatio = max(2.5, 0.3 + 1 + 1.5), in tenths.
requiredBorderRatio ==
  Max(TEXT_BORDER_RATIO, TEXT_IMAGE_GAP_MIN_RATIO + RatioDen + TEXT_EDGE_SAFE_RATIO)

previewWidth == 900

\* ---------------------------------------------------------------------------
\* Inputs of a render
\* ---------------------------------------------------------------------------

\* Pixel widths and heights a source may have: tiny, square-able, landscape,
\* portrait just below / at / above the 1.8 extreme-portrait ratio.
SourceDims == {1, 7, 1000, 1799, 1800, 2500, 3000, 4000}

\* What sharp(...).metadata() yields: readable with both dimensions, or not
\* (an exception, or a missing / zero width or height).
Metadata ==
  [readable : {TRUE}, width : SourceDims, height : SourceDims]
    \cup {[readable |-> FALSE, width |-> 0, height |-> 0],
          [readable |-> TRUE, width |-> 0, height |-> 1000]}

NoInfo == [present |-> FALSE, width |-> 0, height |-> 0]

\* readSourceInfo: the dimensions when metadata() succeeds and both are
\* truthy, null otherwise.
readSourceInfo(md) ==
  IF md.readable /\ md.width # 0 /\ md.height # 0
    THEN [present |-> TRUE, width |-> md.width, height |-> md.height]
    ELSE NoInfo

resolveCanvasSize_swapSquare(baseSize, sourceInfo) ==
  IF ~sourceInfo.present THEN baseSize
  ELSE IF sourceInfo.height >= sourceInfo.width
    THEN [width |-> baseSize.height, height |-> baseSize.width]
    ELSE baseSize

resolveCanvasSize(baseSize, sourceInfo) ==
  IF ~sourceInfo.present THEN baseSize
  ELSE IF sourceInfo.height > sourceInfo.width
    THEN [width |-> baseSize.height, height |-> baseSize.width]
    ELSE baseSize

\* ratio = height / width; ratio >= 1.8.
resolveLayoutMode_above(includeText, sourceInfo) ==
  IF ~includeText \/ ~sourceInfo.present THEN "bottom"
  ELSE IF 10 * sourceInfo.height > 18 * sourceInfo.width THEN "right"
  ELSE "bottom"

resolveLayoutMode(includeText, sourceInfo) ==
  IF ~includeText \/ ~sourceInfo.present THEN "bottom"
  ELSE IF 10 * sourceInfo.height >= 18 * sourceInfo.width THEN "right"
  ELSE "bottom"

getTypography(canvas) ==
  [fontSize |-> RoundDiv(canvas.height * FontRatioNum, FontRatioDen),
   paddingX |-> 0,
   paddingY |-> 0]

textBorderOf(fontSize) == CeilDiv(fontSize * requiredBorderRatio, RatioDen)

Rect(x, y, w, h) == [x |-> x, y |-> y, width |-> w, height |-> h]

buildLayout_bandAlways(canvas, includeText, mode) ==
  LET textBorder == textBorderOf(getTypography(canvas).fontSize)
  IN [mode |-> mode,
      imageArea |-> Rect(0, 0, canvas.width, canvas.height),
      textArea |->
        IF mode = "bottom"
          THEN Rect(0, canvas.height - textBorder, canvas.width, textBorder)
          ELSE Rect(canvas.width - textBorder, 0, textBorder, canvas.height)]

buildLayout(canvas, includeText, mode) ==
  LET textBorder == textBorderOf(getTypography(canvas).fontSize)
  IN [mode |-> mode,
      imageArea |-> Rect(0, 0, canvas.width, canvas.height),
      textArea |->
        IF includeText
          THEN IF mode = "bottom"
                 THEN Rect(0, canvas.height - textBorder, canvas.width, textBorder)
                 ELSE Rect(canvas.width - textBorder, 0, textBorder, canvas.height)
          ELSE Rect(0, 0, 0, 0)]

resolveImageRect_centered(sourceInfo, layout, fontSize) ==
  LET textBorder == textBorderOf(fontSize)
      canvasWidth == layout.imageArea.width
      canvasHeight == layout.imageArea.height
      maxWidth == IF layout.mode = "right"
                    THEN Max(1, canvasWidth - textBorder) ELSE canvasWidth
      maxHeight == IF layout.mode = "bottom"
                     THEN Max(1, canvasHeight - textBorder) ELSE canvasHeight
      byWidth == maxWidth * sourceInfo.height <= maxHeight * sourceInfo.width
      num == IF byWidth THEN maxWidth ELSE maxHeight
      den == IF byWidth THEN sourceInfo.width ELSE sourceInfo.height
      width == RoundDiv(sourceInfo.width * num, den)
      height == RoundDiv(sourceInfo.height * num, den)
  IN Rect(layout.imageArea.x + RoundDiv(canvasWidth - width, 2),
          layout.imageArea.y + RoundDiv(canvasHeight - height, 2),
          width, height)

\* scale = min(maxWidth / srcW, maxHeight / srcH) is kept as the exact
\* fraction num / den; width and height are Math.round(src * scale).
resolveImageRect(sourceInfo, layout, fontSize) ==
  LET textBorder == textBorderOf(fontSize)
      canvasWidth == layout.imageArea.width
      canvasHeight == layout.imageArea.height
      maxWidth == IF layout.mode = "right"
                    THEN Max(1, canvasWidth - textBorder) ELSE canvasWidth
      maxHeight == IF layout.mode = "bottom"
                     THEN Max(1, canvasHeight - textBorder) ELSE canvasHeight
      byWidth == maxWidth * sourceInfo.height <= maxHeight * sourceInfo.width
      num == IF byWidth THEN maxWidth ELSE maxHeight
      den == IF byWidth THEN sourceInfo.width ELSE sourceInfo.height
      width == RoundDiv(sourceInfo.width * num, den)
      height == RoundDiv(sourceInfo.height * num, den)
      x0 == RoundDiv(canvasWidth - width, 2)
      y0 == RoundDiv(canvasHeight - height, 2)
      bottomMargin == canvasHeight - (y0 + height)
      rightMargin == canvasWidth - (x0 + width)
      y == IF layout.mode = "bottom" /\ bottomMargin < textBorder
             THEN y0 - (textBorder - bottomMargin) ELSE y0
      x == IF layout.mode = "right" /\ rightMargin < textBorder
             THEN x0 - (textBorder - rightMargin) ELSE x0
  IN Rect(layout.imageArea.x + x, layout.imageArea.y + y, width, height)

\* buildPreviewImage: the preview canvas is 900 wide, height scaled to match.
previewSizeOf(size) ==
  [width |-> previewWidth,
   height |-> RoundDiv(EXPORT_SIZE_PX[size].height * previewWidth,
                       EXPORT_SIZE_PX[size].width)]

\* The size handed to buildStampedImage by each caller.
targetSizeOf(kind, size) ==
  IF kind = "export" THEN EXPORT_SIZE_PX[size] ELSE previewSizeOf(size)

\* ---------------------------------------------------------------------------
\* Caption text
\* ---------------------------------------------------------------------------

\* A text is the sequence of its code points.
Space == 32

Bars == {124, 65372}

Dashes == {45, 183, 8212}

AsciiAlnum == (48..57) \cup (65..90) \cup (97..122)

CjkLength == (19968..40959) \cup (12352..12543) \cup (44032..55215)

\* The width of one character in tenths of the font size.
unitsOf(code) ==
  IF code = Space THEN 3
  ELSE IF code \in Bars THEN 4
  ELSE IF code \in Dashes THEN 4
  ELSE IF code \in AsciiAlnum THEN 6
  ELSE IF code \in CjkLength THEN 10
  ELSE 7

RECURSIVE unitsSum(_)
unitsSum(text) ==
  IF text = <<>> THEN 0 ELSE unitsOf(Head(text)) + unitsSum(Tail(text))

\* estimateTextLength, in tenths of a pixel.
estimateTextLength(text, fontSize) ==
  IF text = <<>> THEN 0 ELSE unitsSum(text) * fontSize

\* [location, description].filter(Boolean).join(' \u00b7 ')
joinLine(locationText, descText) ==
  IF locationText # <<>> /\ descText # <<>>
    THEN locationText \o <<Space, 183, Space>> \o descText
    ELSE locationText \o descText

\* The captions a render is asked to lay out: none; a date alone
\* ("2024-01-02"); date, a two-ideograph location and a Latin description;
\* the same with a description that fits the side band but not beside half
\* its height; the same with a description too long for the side band.
DateText == <<50, 48, 50, 52, 45, 48, 49, 45, 48, 50>>

LocationText == <<20140, 37117>>

DescText == <<75, 121, 111, 116, 111, 44, 32, 50, 48, 50, 52>>

MediumText == [i \in 1..20 |-> 23665]

LongText == [i \in 1..60 |-> 23665]

Captions ==
  {[date |-> <<>>, location |-> <<>>, description |-> <<>>],
   [date |-> DateText, location |-> <<>>, description |-> <<>>],
   [date |-> DateText, location |-> LocationText, description |-> DescText],
   [date |-> DateText, location |-> LocationText, description |-> MediumText],
   [date |-> DateText, location |-> LocationText, description |-> LongText]}

\* ---------------------------------------------------------------------------
\* State
\* ---------------------------------------------------------------------------

VARIABLES
  \* one buildStampedImage call
  rpc,          \* "idle" | "layout" | "placed" | "resized" | "detected" |
                \* "done" | "failed"
  rq,           \* its arguments: caller kind, preset, source metadata,
                \* caption, includeText
  sourceInfo,   \* what readSourceInfo returned
  canvasSize,   \* resolveCanvasSize
  layout,       \* buildLayout
  imageRect,    \* the placement rect
  contentBounds,\* how detectContentBounds ended, and its box
  contentRect,  \* let contentRect (NoRect for null)
  textLayer     \* the text overlay buildPreviewSvg produced

renderVars == <<rpc, rq, sourceInfo, canvasSize, layout, imageRect,
                contentBounds, contentRect, textLayer>>

VARIABLES
  \* the file system
  dirs,         \* the export folders that exist
  files,        \* the files that exist: a set of [path, content]
  \* one export:start invocation per run
  pc,           \* where the handler stands
  payload,      \* its ExportPayload
  candidate,    \* ensureUniqueDir: the candidate being probed
  counter,      \* ensureUniqueDir: the next suffix
  outputRoot,   \* the directory ensureUniqueDir returned
  index,        \* the loop index (0-based)
  exported,     \* let exported
  failed,       \* let failed
  events,       \* the export:progress events sent so far
  result,       \* the value the handler resolved with
  \* history of the run, not program state
  created,      \* whether its mkdir made the folder (it did not exist before)
  raised,       \* the loop indices whose processing threw
  inflight,     \* the loop indices whose processing has begun and not ended
  \* project:save
  spc,          \* where writeJsonAtomic stands
  \* image:preview
  previewReply  \* what the handler last returned

VARIABLES
  \* one detectContentBounds call
  dpc,          \* "idle" | "called" | "returned"
  imageSize,    \* its width and height arguments
  data,         \* the raw pixels of the downsampled image
  bounds        \* what it returned (NoRect for null)

detectVars == <<dpc, imageSize, data, bounds>>

VARIABLES
  \* the renderer's preview effect
  inputs,       \* the effect's dependencies, as the number of their changes
  requests,     \* the effect runs so far, one getPreview request each
  previewUrl,   \* const [previewUrl, setPreviewUrl]
  \* history, not program state
  shownFrom     \* the effect run whose response set previewUrl last

viewVars == <<inputs, requests, previewUrl, shownFrom>>

VARIABLES
  \* the renderer's handleExport
  isExporting,  \* const [isExporting, setIsExporting]
  handlers      \* the handleExport calls so far and where each stands

triggerVars == <<isExporting, handlers>>

VARIABLES
  \* overlapping project:save calls on one project path
  saves         \* per call: where writeJsonAtomic stands, and its payload

saveVars == <<saves>>

VARIABLES
  \* the renderer's project state and its two ways of saving it
  edits,            \* the project content, as the number of edits made to it
  latestProjectRef, \* latestProjectRef.current
  dirtyRef,         \* dirtyRef.current
  suppressDirtyRef, \* suppressDirtyRef.current
  autoSavingRef,    \* autoSavingRef.current
  autosave,         \* the autosave tick's saveProject call
  manualSave,       \* handleSaveProject's saveProject call
  savedProject      \* the content of the project file

editVars == <<edits, latestProjectRef, dirtyRef, suppressDirtyRef,
              autoSavingRef, autosave, manualSave, savedProject>>

VARIABLES
  \* the thumbnail grid
  pageSize,             \* const [pageSize, setPageSize]
  pageIndex,            \* const [pageIndex, setPageIndex]
  currentPhotoId,       \* the current photo's id, NoPhoto for null
  multiSelectedIds,     \* the ids of the multi-selection
  selectionAnchorIndex  \* the anchor of a Shift range, NoAnchor for null

selectVars == <<pageSize, pageIndex, currentPhotoId, multiSelectedIds,
                selectionAnchorIndex>>

VARIABLES
  \* recent projects
  recentFile,   \* the list stored in RECENT_FILE (empty when missing)
  adds          \* history: the recent:add calls so far

recentVars == <<recentFile, adds>>

VARIABLES
  \* the hand-over of a launch payload to a new main window
  pendingLaunchPayload, \* let pendingLaunchPayload (main process)
  launchMessage,        \* the message of did-finish-load and where it stands
  listening,            \* whether the renderer's launcher listeners are registered
  payloadRequests,      \* the renderer's getLaunchPayload calls
  launchHandledRef,     \* launchHandledRef.current
  loads                 \* history: how many project loads were started

launchVars == <<pendingLaunchPayload, launchMessage, listening,
                payloadRequests, launchHandledRef, loads>>

\* The state of the renderer's handlers and of the calls they make.
uiVars == <<triggerVars, saveVars, editVars, selectVars, recentVars,
            launchVars>>

fsVars == <<dirs, files>>

runVars == <<pc, payload, candidate, counter, outputRoot, index, exported,
             failed, events, result, created, raised, inflight>>

exportVars == <<fsVars, runVars, spc, previewReply>>

\* What the export, thumbnail, preview and save handlers leave alone.
sideVars == <<renderVars, detectVars, viewVars, uiVars>>

\* What the renderer's handlers outside the preview pane leave alone.
backVars == <<renderVars, exportVars, detectVars, viewVars>>

\* What handleExport leaves alone.
exceptTrigger == <<backVars, saveVars, editVars, selectVars, recentVars,
                   launchVars>>

\* What the overlapping saves leave alone: all but files.
exceptSaves == <<dirs, runVars, spc, previewReply, renderVars, detectVars,
                 viewVars, triggerVars, editVars, selectVars, recentVars,
                 launchVars>>

\* What edits and saves in the renderer leave alone.
exceptEdit == <<backVars, triggerVars, saveVars, selectVars, recentVars,
                launchVars>>

\* What the thumbnail grid's handlers leave alone.
exceptSelect == <<backVars, triggerVars, saveVars, editVars, recentVars,
                  launchVars>>

\* What recent:add leaves alone.
exceptRecent == <<backVars, triggerVars, saveVars, editVars, selectVars,
                  launchVars>>

\* What the launch hand-over leaves alone.
exceptLaunch == <<backVars, triggerVars, saveVars, editVars, selectVars,
                  recentVars>>

vars == <<renderVars, exportVars, detectVars, viewVars, uiVars>>

NoRect == Rect(0, 0, 0, 0)

NoLayout == [mode |-> "bottom", imageArea |-> NoRect, textArea |-> NoRect]

NoText == [mode |-> "none"]

NoBounds == [outcome |-> "none", box |-> NoRect]

\* clamp(value, min, max) of buildPreviewSvg.
clamp(value, min, max) == Min(Max(value, min), Max(min, max))

buildPreviewSvg_hugging(meta, lay, canvas, imgRect, cntRect) ==
  LET fontSize == getTypography(canvas).fontSize
      ascent == RoundDiv(fontSize * TEXT_ASCENT_RATIO, RatioDen)
      descent == Max(1, fontSize - ascent)
      minGap == CeilDiv(fontSize * TEXT_IMAGE_GAP_MIN_RATIO, RatioDen)
      edgeSafe == CeilDiv(fontSize * TEXT_EDGE_SAFE_RATIO, RatioDen)
      imageBase == IF imgRect = NoRect THEN lay.imageArea ELSE imgRect
      contentBase == IF cntRect = NoRect THEN imageBase ELSE cntRect
      leftLine == joinLine(meta.location, meta.description)
      rightLine == meta.date
  IN IF lay.mode = "right"
       THEN LET maxAnchorX == canvas.width - edgeSafe - descent
                anchorX == Min(imageBase.x + imageBase.width + minGap + ascent,
                               maxAnchorX)
                minTop == RatioDen * edgeSafe
                maxBottom == RatioDen * (canvas.height - edgeSafe)
                dateLength == estimateTextLength(meta.date, fontSize)
                metaLength == estimateTextLength(leftLine, fontSize)
                topMax == Max(minTop, maxBottom - dateLength)
                bottomMin == Min(maxBottom, minTop + metaLength)
                hugTop == clamp(RatioDen * (contentBase.y + edgeSafe),
                                minTop, topMax)
                hugBottom ==
                  clamp(RatioDen * (contentBase.y + contentBase.height - edgeSafe),
                        bottomMin, maxBottom)
                gap == hugBottom - metaLength - (hugTop + dateLength)
                spread == FALSE
            IN [mode |-> "right",
                dateLine |-> rightLine,
                metaLine |-> leftLine,
                anchorX |-> anchorX,
                topY |-> IF spread THEN clamp(minTop, minTop, topMax)
                                   ELSE hugTop,
                bottomY |-> IF spread THEN clamp(maxBottom, bottomMin, maxBottom)
                                      ELSE hugBottom]
       ELSE LET left == Max(contentBase.x, edgeSafe)
                right == Min(contentBase.x + contentBase.width,
                             canvas.width - edgeSafe)
                desiredTop == imageBase.y + imageBase.height + minGap
                minBaseline == desiredTop + ascent
                maxBaseline == canvas.height - edgeSafe - descent
            IN [mode |-> "bottom",
                leftLine |-> leftLine,
                rightLine |-> rightLine,
                leftX |-> IF right < left THEN edgeSafe ELSE left,
                rightX |-> IF right < left THEN canvas.width - edgeSafe
                                           ELSE right,
                textY |-> Min(minBaseline, maxBaseline)]

\* buildPreviewSvg: where the caption's fragments are anchored.  An absent
\* imageRect or contentRect is NoRect.  In right mode the vertical anchors
\* and the estimated lengths are in tenths of a pixel.
buildPreviewSvg(meta, lay, canvas, imgRect, cntRect) ==
  LET fontSize == getTypography(canvas).fontSize
      ascent == RoundDiv(fontSize * TEXT_ASCENT_RATIO, RatioDen)
      descent == Max(1, fontSize - ascent)
      minGap == CeilDiv(fontSize * TEXT_IMAGE_GAP_MIN_RATIO, RatioDen)
      edgeSafe == CeilDiv(fontSize * TEXT_EDGE_SAFE_RATIO, RatioDen)
      imageBase == IF imgRect = NoRect THEN lay.imageArea ELSE imgRect
      contentBase == IF cntRect = NoRect THEN imageBase ELSE cntRect
      leftLine == joinLine(meta.location, meta.description)
      rightLine == meta.date
  IN IF lay.mode = "right"
       THEN LET maxAnchorX == canvas.width - edgeSafe - descent
                anchorX == Min(imageBase.x + imageBase.width + minGap + ascent,
                               maxAnchorX)
                minTop == RatioDen * edgeSafe
                maxBottom == RatioDen * (canvas.height - edgeSafe)
                dateLength == estimateTextLength(meta.date, fontSize)
                metaLength == estimateTextLength(leftLine, fontSize)
                topMax == Max(minTop, maxBottom - dateLength)
                bottomMin == Min(maxBottom, minTop + metaLength)
                hugTop == clamp(RatioDen * (contentBase.y + edgeSafe),
                                minTop, topMax)
                hugBottom ==
                  clamp(RatioDen * (contentBase.y + contentBase.height - edgeSafe),
                        bottomMin, maxBottom)
                gap == hugBottom - metaLength - (hugTop + dateLength)
                spread == /\ rightLine # <<>> /\ leftLine # <<>>
                          /\ gap < RatioDen * fontSize
            IN [mode |-> "right",
                dateLine |-> rightLine,
                metaLine |-> leftLine,
                anchorX |-> anchorX,
                topY |-> IF spread THEN clamp(minTop, minTop, topMax)
                                   ELSE hugTop,
                bottomY |-> IF spread THEN clamp(maxBottom, bottomMin, maxBottom)
                                      ELSE hugBottom]
       ELSE LET left == Max(contentBase.x, edgeSafe)
                right == Min(contentBase.x + contentBase.width,
                             canvas.width - edgeSafe)
                desiredTop == imageBase.y + imageBase.height + minGap
                minBaseline == desiredTop + ascent
                maxBaseline == canvas.height - edgeSafe - descent
            IN [mode |-> "bottom",
                leftLine |-> leftLine,
                rightLine |-> rightLine,
                leftX |-> IF right < left THEN edgeSafe ELSE left,
                rightX |-> IF right < left THEN canvas.width - edgeSafe
                                           ELSE right,
                textY |-> Min(minBaseline, maxBaseline)]

\* The boxes detectContentBounds may return for a width x height image:
\* inside the image, at least one pixel, and inset on some side.
InsetBoxes(width, height) ==
  {b \in {Rect(width \div 4, height \div 4, width \div 2, height \div 2),
          Rect(width \div 10, 0, width - (width \div 10), height)} :
     b.width >= 1 /\ b.height >= 1 /\ (b.x > 0 \/ b.y > 0)}

NoRequest ==
  [kind |-> "export", size |-> "5", md |-> [readable |-> FALSE, width |-> 0, height |-> 0],
   meta |-> [date |-> <<>>, location |-> <<>>, description |-> <<>>],
   includeText |-> FALSE, decodable |-> FALSE]

RenderIdle ==
  /\ rpc = "idle"
  /\ rq = NoRequest
  /\ sourceInfo = NoInfo
  /\ canvasSize = [width |-> 0, height |-> 0]
  /\ layout = NoLayout
  /\ imageRect = NoRect
  /\ contentBounds = NoBounds
  /\ contentRect = NoRect
  /\ textLayer = NoText

\* buildStampedImage is entered: by export:start with the preset's pixels, or
\* by buildPreviewImage with the 900-wide preview size.  decodable says
\* whether sharp can decode the source's pixels.
RenderCall ==
  /\ rpc = "idle"
  /\ \E kind \in {"export", "preview"}, size \in Sizes, md \in Metadata,
        meta \in Captions, includeText \in BOOLEAN, decodable \in BOOLEAN :
       rq' = [kind |-> kind, size |-> size, md |-> md, meta |-> meta,
              includeText |-> includeText, decodable |-> decodable]
  /\ rpc' = "layout"
  /\ UNCHANGED <<sourceInfo, canvasSize, layout, imageRect, contentBounds,
                 contentRect, textLayer>>
  /\ UNCHANGED <<exportVars, detectVars, viewVars, uiVars>>

\* readSourceInfo, resolveCanvasSize, resolveLayoutMode, buildLayout.
RenderLayout ==
  /\ rpc = "layout"
  /\ LET info == readSourceInfo(rq.md)
         canvas == resolveCanvasSize(targetSizeOf(rq.kind, rq.size), info)
         mode == resolveLayoutMode(rq.includeText, info)
     IN /\ sourceInfo' = info
        /\ canvasSize' = canvas
        /\ layout' = buildLayout(canvas, rq.includeText, mode)
  /\ rpc' = "placed"
  /\ imageRect' = layout'.imageArea
  /\ UNCHANGED <<rq, contentBounds, contentRect, textLayer>>
  /\ UNCHANGED <<exportVars, detectVars, viewVars, uiVars>>

RenderPlace_needsInfo ==
  /\ rpc = "placed"
  /\ LET rect == IF sourceInfo.present
                   THEN resolveImageRect(sourceInfo, layout,
                                         getTypography(canvasSize).fontSize)
                   ELSE layout.imageArea
     IN /\ imageRect' = rect
        /\ rpc' = IF /\ sourceInfo.present /\ rq.decodable
                     /\ rect.width > 0 /\ rect.height > 0
                    THEN "resized" ELSE "failed"
  /\ UNCHANGED <<rq, sourceInfo, canvasSize, layout, contentBounds,
                 contentRect, textLayer>>
  /\ UNCHANGED <<exportVars, detectVars, viewVars, uiVars>>

\* The resize: into the placement rect with Source Info, contain-fit into the
\* whole image area without; sharp throws when the source cannot be decoded
\* or the target width or height is not positive.
RenderPlace ==
  /\ rpc = "placed"
  /\ LET rect == IF sourceInfo.present
                   THEN resolveImageRect(sourceInfo, layout,
                                         getTypography(canvasSize).fontSize)
                   ELSE layout.imageArea
     IN /\ imageRect' = rect
        /\ rpc' = IF rq.decodable /\ rect.width > 0 /\ rect.height > 0
                    THEN "resized" ELSE "failed"
  /\ UNCHANGED <<rq, sourceInfo, canvasSize, layout, contentBounds,
                 contentRect, textLayer>>
  /\ UNCHANGED <<exportVars, detectVars, viewVars, uiVars>>

\* What the try block around detectContentBounds leaves in contentRect.
contentRectOf(found, rect) ==
  IF found.outcome = "bounds"
    THEN Rect(rect.x + found.box.x, rect.y + found.box.y,
              found.box.width, found.box.height)
    ELSE NoRect

RenderDetect_propagates ==
  /\ rpc = "resized" /\ rq.includeText
  /\ \E found \in {[outcome |-> "throws", box |-> NoRect],
                    [outcome |-> "null", box |-> NoRect]}
                     \cup {[outcome |-> "bounds", box |-> b] :
                             b \in InsetBoxes(imageRect.width, imageRect.height)} :
       /\ contentBounds' = found
       /\ contentRect' = contentRectOf(found, imageRect)
       /\ rpc' = IF found.outcome = "throws" THEN "failed" ELSE "detected"
  /\ UNCHANGED <<rq, sourceInfo, canvasSize, layout, imageRect, textLayer>>
  /\ UNCHANGED <<exportVars, detectVars, viewVars, uiVars>>

\* includeText: detectContentBounds on the resized image throws, returns
\* null or returns a box; the catch ignores the exception.
RenderDetect ==
  /\ rpc = "resized" /\ rq.includeText
  /\ \E found \in {[outcome |-> "throws", box |-> NoRect],
                    [outcome |-> "null", box |-> NoRect]}
                     \cup {[outcome |-> "bounds", box |-> b] :
                             b \in InsetBoxes(imageRect.width, imageRect.height)} :
       /\ contentBounds' = found
       /\ contentRect' = contentRectOf(found, imageRect)
       /\ rpc' = "detected"
  /\ UNCHANGED <<rq, sourceInfo, canvasSize, layout, imageRect, textLayer>>
  /\ UNCHANGED <<exportVars, detectVars, viewVars, uiVars>>

\* The text overlay (with includeText), the composite and the encoding.
RenderCompose ==
  /\ \/ rpc = "detected"
     \/ rpc = "resized" /\ ~rq.includeText
  /\ textLayer' = IF rq.includeText
                    THEN buildPreviewSvg(rq.meta, layout, canvasSize, imageRect,
                                         contentRect)
                    ELSE NoText
  /\ rpc' = "done"
  /\ UNCHANGED <<rq, sourceInfo, canvasSize, layout, imageRect, contentBounds,
                 contentRect>>
  /\ UNCHANGED <<exportVars, detectVars, viewVars, uiVars>>

\* The call has returned or thrown; the next call starts from nothing.
RenderReturn ==
  /\ rpc \in {"done", "failed"}
  /\ rpc' = "idle"
  /\ rq' = NoRequest
  /\ sourceInfo' = NoInfo
  /\ canvasSize' = [width |-> 0, height |-> 0]
  /\ layout' = NoLayout
  /\ imageRect' = NoRect
  /\ contentBounds' = NoBounds
  /\ contentRect' = NoRect
  /\ textLayer' = NoText
  /\ UNCHANGED <<exportVars, detectVars, viewVars, uiVars>>

\* ---------------------------------------------------------------------------
\* Files and paths
\* ---------------------------------------------------------------------------

\* The most items one export payload carries.
MaxItems == 3

\* The most items a payload carries where the run shares the file system
\* with a second run or with other handlers.
MaxSharedItems == 1

\* The export folders of the first minute that exist before any run: none,
\* the base name, the base name and base-1, ...
MaxExisting == 2

\* The clock readings (in half minutes) new Date() may return.
MaxTime == 2

TicksPerMinute == 2

Runs == {"r1", "r2"}

\* payload.baseDir: the photo folder.
baseDir == "photos"

\* The folder picked in the export dialog: the photo folder itself or another.
ExportDirs == {"photos", "out"}

\* The folder-name slot of a path that is not inside an export folder.
NoFolder == [stamp |-> -1, n |-> 0]

\* What scanImages returned, in its sort order; relativePath is kept as
\* path.parse splits it.
ScannedPhotos ==
  << [relativePath |-> [dir |-> "", name |-> "a", ext |-> ".jpg"], filename |-> "a.jpg"],
     [relativePath |-> [dir |-> "", name |-> "a", ext |-> ".JPEG"], filename |-> "a.JPEG"],
     [relativePath |-> [dir |-> "", name |-> "c", ext |-> ".png"], filename |-> "c.png"],
     [relativePath |-> [dir |-> "sub", name |-> "b", ext |-> ".PNG"], filename |-> "b.PNG"] >>

\* String.prototype.toLowerCase on the extensions that occur.
toLowerCase(ext) ==
  CASE ext = ".JPEG" -> ".jpeg"
    [] ext = ".PNG" -> ".png"
    [] OTHER -> ext

PathOf(root, folder, dir, name, ext) ==
  [root |-> root, folder |-> folder, dir |-> dir, name |-> name, ext |-> ext]

\* path.join(payload.baseDir, item.relativePath)
sourcePathOf(relativePath) ==
  PathOf(baseDir, NoFolder, relativePath.dir, relativePath.name, relativePath.ext)

Content(kind, format, tag) == [kind |-> kind, format |-> format, tag |-> tag]

\* The scanned originals as they lie on disk.
OriginalFiles ==
  {[path |-> sourcePathOf(ScannedPhotos[i].relativePath),
    content |-> Content("original",
                        IF toLowerCase(ScannedPhotos[i].relativePath.ext) = ".png"
                          THEN "png" ELSE "jpeg", i)]
     : i \in 1..Len(ScannedPhotos)}

\* fs.writeFile: the file at p now holds c.
WriteFile(fs, p, c) == {f \in fs : f.path # p} \cup {[path |-> p, content |-> c]}

\* fs.rm(p, {force: true})
RemoveFile(fs, p) == {f \in fs : f.path # p}

Exists(fs, p) == \E f \in fs : f.path = p

\* The payloads: the selected photos in scan order, as handleExport builds
\* them, and the empty list, which the handler accepts as well.
ItemLists(most) ==
  LET n == Len(ScannedPhotos)
      pick(S) == SelectSeq([i \in 1..n |-> i], LAMBDA i : i \in S)
  IN {[k \in 1..Len(pick(S)) |-> ScannedPhotos[pick(S)[k]]] :
        S \in {T \in SUBSET (1..n) : Cardinality(T) <= most}}

\* formatExportFolderName: the name carries the date down to the minute.
formatExportFolderName(date) == date \div TicksPerMinute

\* ---------------------------------------------------------------------------
\* export:start
\* ---------------------------------------------------------------------------

outputExtOf_caseSensitive(ext) == IF ext = ".png" THEN ".png" ELSE ".jpg"

\* const ext = parsed.ext.toLowerCase(); outputExt = ext === '.png' ? '.png' : '.jpg'
outputExtOf(ext) == IF toLowerCase(ext) = ".png" THEN ".png" ELSE ".jpg"

\* format: outputExt === '.png' ? 'png' : 'jpeg'
formatOf(outputExt) == IF outputExt = ".png" THEN "png" ELSE "jpeg"

\* buildStampedImage: output.png() for 'png', output.jpeg() otherwise.
encodedAs(format) == IF format = "png" THEN "png" ELSE "jpeg"

outputPathOf_flat(root, relativePath) ==
  PathOf(root.root, NoFolder, relativePath.dir, relativePath.name,
         relativePath.ext)

\* path.join(path.join(outputRoot, parsed.dir), parsed.name + outputExt)
outputPathOf(root, relativePath) ==
  PathOf(root.root, [stamp |-> root.stamp, n |-> root.n], relativePath.dir,
         relativePath.name, outputExtOf(relativePath.ext))

ProgressEvent_zeroBased(i, items) ==
  [current |-> i, total |-> Len(items), filename |-> items[i + 1].filename]

\* The payload of export:progress for loop index i.
ProgressEvent(i, items) ==
  [current |-> i + 1, total |-> Len(items), filename |-> items[i + 1].filename]

NoDir == [root |-> "", stamp |-> -1, n |-> 0]

NoResult == [exported |-> -1, failed |-> -1, total |-> -1, outputDir |-> NoDir]

NoPayload == [baseDir |-> "", exportDir |-> "", items |-> <<>>]

ResultOf(ex, fl, items, root) ==
  [exported |-> ex, failed |-> fl, total |-> Len(items), outputDir |-> root]

ExportIdle ==
  /\ pc = [r \in Runs |-> "idle"]
  /\ payload = [r \in Runs |-> NoPayload]
  /\ candidate = [r \in Runs |-> NoDir]
  /\ counter = [r \in Runs |-> 0]
  /\ outputRoot = [r \in Runs |-> NoDir]
  /\ index = [r \in Runs |-> 0]
  /\ exported = [r \in Runs |-> 0]
  /\ failed = [r \in Runs |-> 0]
  /\ events = [r \in Runs |-> <<>>]
  /\ result = [r \in Runs |-> NoResult]
  /\ created = [r \in Runs |-> FALSE]
  /\ raised = [r \in Runs |-> {}]
  /\ inflight = [r \in Runs |-> {}]
  /\ spc = "idle"
  /\ previewReply = "none"

\* The handler is invoked; it throws on a missing baseDir or exportDir, and
\* otherwise enters ensureUniqueDir with the folder name of the current minute.
ExportStart(r, lists) ==
  /\ pc[r] = "idle"
  /\ \E dir \in ExportDirs \cup {""}, items \in lists, now \in 0..MaxTime :
       /\ payload' = [payload EXCEPT ![r] =
                        [baseDir |-> baseDir, exportDir |-> dir, items |-> items]]
       /\ IF dir = ""
            THEN /\ pc' = [pc EXCEPT ![r] = "rejected"]
                 /\ UNCHANGED <<candidate, counter>>
            ELSE /\ pc' = [pc EXCEPT ![r] = "access"]
                 /\ candidate' = [candidate EXCEPT ![r] =
                      [root |-> dir, stamp |-> formatExportFolderName(now), n |-> 0]]
                 /\ counter' = [counter EXCEPT ![r] = 1]
  /\ UNCHANGED <<fsVars, outputRoot, index, exported, failed, events, result,
                 created, raised, inflight, spc, previewReply, sideVars>>

\* ensureUniqueDir, one fs.access: an existing candidate is replaced by
\* basePath-counter, a missing one ends the loop.
ProbeCandidate(r) ==
  /\ pc[r] = "access"
  /\ IF candidate[r] \in dirs
       THEN /\ candidate' = [candidate EXCEPT ![r].n = counter[r]]
            /\ counter' = [counter EXCEPT ![r] = counter[r] + 1]
            /\ UNCHANGED pc
       ELSE /\ pc' = [pc EXCEPT ![r] = "rootmkdir"]
            /\ UNCHANGED <<candidate, counter>>
  /\ UNCHANGED <<fsVars, payload, outputRoot, index, exported, failed, events,
                 result, created, raised, inflight, spc, previewReply, sideVars>>

MakeRoot_startsAll(r) ==
  /\ pc[r] = "rootmkdir"
  /\ dirs' = dirs \cup {candidate[r]}
  /\ created' = [created EXCEPT ![r] = candidate[r] \notin dirs]
  /\ outputRoot' = [outputRoot EXCEPT ![r] = candidate[r]]
  /\ inflight' = [inflight EXCEPT ![r] =
                    0..(Len(payload[r].items) - 1)]
  /\ IF Len(payload[r].items) = 0
       THEN /\ pc' = [pc EXCEPT ![r] = "returned"]
            /\ result' = [result EXCEPT ![r] =
                            ResultOf(0, 0, payload[r].items, candidate[r])]
       ELSE /\ pc' = [pc EXCEPT ![r] = "mkdir"]
            /\ UNCHANGED result
  /\ UNCHANGED <<files, payload, candidate, counter, index, exported, failed,
                 events, raised, spc, previewReply, sideVars>>

\* ensureUniqueDir, fs.mkdir(candidate, {recursive: true}): it succeeds
\* whether or not the folder exists by now; the loop is entered, or the
\* handler returns at once for an empty item list.
MakeRoot(r) ==
  /\ pc[r] = "rootmkdir"
  /\ dirs' = dirs \cup {candidate[r]}
  /\ created' = [created EXCEPT ![r] = candidate[r] \notin dirs]
  /\ outputRoot' = [outputRoot EXCEPT ![r] = candidate[r]]
  /\ inflight' = [inflight EXCEPT ![r] =
                    {i \in {0} : i < Len(payload[r].items)}]
  /\ IF Len(payload[r].items) = 0
       THEN /\ pc' = [pc EXCEPT ![r] = "returned"]
            /\ result' = [result EXCEPT ![r] =
                            ResultOf(0, 0, payload[r].items, candidate[r])]
       ELSE /\ pc' = [pc EXCEPT ![r] = "mkdir"]
            /\ UNCHANGED result
  /\ UNCHANGED <<files, payload, candidate, counter, index, exported, failed,
                 events, raised, spc, previewReply, sideVars>>

\* fs.mkdir rejects (no permission, read-only volume): ensureUniqueDir throws
\* and so does the handler.
MakeRootFails(r) ==
  /\ pc[r] = "rootmkdir"
  /\ pc' = [pc EXCEPT ![r] = "rejected"]
  /\ UNCHANGED <<fsVars, payload, candidate, counter, outputRoot, index,
                 exported, failed, events, result, created, raised, inflight, spc,
                 previewReply, sideVars>>

\* The end of one loop iteration: the finally block sends the progress event,
\* index += 1, and the loop either starts the next item (up to its
\* await fs.mkdir) or the handler returns its result.
FinishItem(r, ex, fl) ==
  /\ exported' = [exported EXCEPT ![r] = ex]
  /\ failed' = [failed EXCEPT ![r] = fl]
  /\ events' = [events EXCEPT ![r] =
                  Append(events[r], ProgressEvent(index[r], payload[r].items))]
  /\ index' = [index EXCEPT ![r] = index[r] + 1]
  /\ inflight' = [inflight EXCEPT ![r] =
                    (inflight[r] \ {index[r]}) \cup
                      {i \in {index[r] + 1} : i < Len(payload[r].items)}]
  /\ IF index[r] + 1 < Len(payload[r].items)
       THEN /\ pc' = [pc EXCEPT ![r] = "mkdir"]
            /\ UNCHANGED result
       ELSE /\ pc' = [pc EXCEPT ![r] = "returned"]
            /\ result' = [result EXCEPT ![r] =
                            ResultOf(ex, fl, payload[r].items, outputRoot[r])]

ItemFailed_uncounted(r) ==
  /\ raised' = [raised EXCEPT ![r] = raised[r] \cup {index[r]}]
  /\ FinishItem(r, exported[r], failed[r])
  /\ UNCHANGED <<fsVars, payload, candidate, counter, outputRoot, created,
                 spc, previewReply, sideVars>>

ItemFailed_rethrow(r) ==
  /\ raised' = [raised EXCEPT ![r] = raised[r] \cup {index[r]}]
  /\ pc' = [pc EXCEPT ![r] = "rejected"]
  /\ UNCHANGED <<exported, failed, events, index, result, inflight>>
  /\ UNCHANGED <<fsVars, payload, candidate, counter, outputRoot, created,
                 spc, previewReply, sideVars>>

\* An await inside the try block rejects: catch counts the item as failed,
\* finally reports it, the loop goes on.
ItemFailed(r) ==
  /\ raised' = [raised EXCEPT ![r] = raised[r] \cup {index[r]}]
  /\ FinishItem(r, exported[r], failed[r] + 1)
  /\ UNCHANGED <<fsVars, payload, candidate, counter, outputRoot, created,
                 spc, previewReply, sideVars>>

\* await fs.mkdir(outputDir, {recursive: true}) resolves, and
\* buildStampedImage is called.
ItemMkdir(r) ==
  /\ pc[r] = "mkdir"
  /\ pc' = [pc EXCEPT ![r] = "render"]
  /\ UNCHANGED <<fsVars, payload, candidate, counter, outputRoot, index,
                 exported, failed, events, result, created, raised, inflight, spc,
                 previewReply, sideVars>>

\* await fs.mkdir(outputDir, ...) rejects.
ItemMkdirFails(r) ==
  /\ pc[r] = "mkdir"
  /\ ItemFailed(r)

\* await buildStampedImage(...) resolves with the encoded buffer, and
\* fs.writeFile is called.
ItemRender(r) ==
  /\ pc[r] = "render"
  /\ pc' = [pc EXCEPT ![r] = "write"]
  /\ UNCHANGED <<fsVars, payload, candidate, counter, outputRoot, index,
                 exported, failed, events, result, created, raised, inflight, spc,
                 previewReply, sideVars>>

\* await buildStampedImage(...) rejects: the source is missing or cannot be
\* decoded, or the encoder fails.
ItemRenderFails(r) ==
  /\ pc[r] = "render"
  /\ ItemFailed(r)

\* await fs.writeFile(outputPath, buffer) resolves: exported += 1.
ItemWrite(r) ==
  /\ pc[r] = "write"
  /\ LET item == payload[r].items[index[r] + 1]
         outputExt == outputExtOf(item.relativePath.ext)
     IN files' = WriteFile(files,
                           outputPathOf(outputRoot[r], item.relativePath),
                           Content("stamped", encodedAs(formatOf(outputExt)),
                                   index[r] + 1))
  /\ FinishItem(r, exported[r] + 1, failed[r])
  /\ UNCHANGED <<dirs, payload, candidate, counter, outputRoot, created,
                 raised, spc, previewReply, sideVars>>

\* await fs.writeFile(...) rejects.
ItemWriteFails(r) ==
  /\ pc[r] = "write"
  /\ ItemFailed(r)

ExportNext(r, lists) ==
  \/ ExportStart(r, lists)
  \/ ProbeCandidate(r)
  \/ MakeRoot(r)
  \/ MakeRootFails(r)
  \/ ItemMkdir(r)
  \/ ItemMkdirFails(r)
  \/ ItemRender(r)
  \/ ItemRenderFails(r)
  \/ ItemWrite(r)
  \/ ItemWriteFails(r)

\* ---------------------------------------------------------------------------
\* image:thumbnail, image:preview, project:save
\* ---------------------------------------------------------------------------

\* sha1(baseDir|relativePath|size|v2), one key per photo.
ThumbKeys == <<"k1", "k2", "k3", "k4">>

\* getThumbnailPath: <userData>/imgstamp-cache/<key>.jpg
thumbPathOf(i) == PathOf("cache", NoFolder, "", ThumbKeys[i], ".jpg")

\* image:thumbnail for a photo whose thumbnail is not cached and whose source
\* sharp can decode: the JPEG is written to the cache.  (A cached thumbnail is
\* returned as it is, an undecodable source is read and returned as it is:
\* neither changes any file.)
Thumbnail ==
  /\ \E i \in 1..Len(ScannedPhotos) :
       /\ ~Exists(files, thumbPathOf(i))
       /\ files' = WriteFile(files, thumbPathOf(i), Content("thumb", "jpeg", i))
  /\ UNCHANGED <<dirs, runVars, spc, previewReply, sideVars>>

\* image:preview: the original file's bytes in 'original' mode, the stamped
\* preview in 'final' mode, '' when reading or rendering throws.
Preview ==
  /\ previewReply' \in
       {IF ~ok \/ ~Exists(files, sourcePathOf(ScannedPhotos[i].relativePath))
          THEN ""
          ELSE IF mode = "original" THEN "data:original"
          ELSE "data:image/jpeg" :
          i \in 1..Len(ScannedPhotos), mode \in {"original", "final"},
          ok \in BOOLEAN} \ {previewReply}
  /\ UNCHANGED <<fsVars, runVars, spc, sideVars>>

\* The project file the user saves to, next to the photos.
projectPath == PathOf("photos", NoFolder, "", "project", ".json")

\* tempPath = <dir>/<basename>.tmp
tempPathOf(p) == [p EXCEPT !.ext = ".json.tmp"]

\* writeJsonAtomic: await fs.writeFile(tempPath, payload)
SaveWriteTemp ==
  /\ spc = "idle"
  /\ files' = WriteFile(files, tempPathOf(projectPath), Content("project", "json", 0))
  /\ spc' = "written"
  /\ UNCHANGED <<dirs, runVars, previewReply, sideVars>>

\* writeJsonAtomic: await fs.rm(filePath, {force: true})
SaveRemove ==
  /\ spc = "written"
  /\ files' = RemoveFile(files, projectPath)
  /\ spc' = "removed"
  /\ UNCHANGED <<dirs, runVars, previewReply, sideVars>>

\* writeJsonAtomic: await fs.rename(tempPath, filePath)
SaveRename ==
  /\ spc = "removed"
  /\ files' = WriteFile(RemoveFile(files, tempPathOf(projectPath)), projectPath,
                        Content("project", "json", 0))
  /\ spc' = "idle"
  /\ UNCHANGED <<dirs, runVars, previewReply, sideVars>>

\* ---------------------------------------------------------------------------
\* detectContentBounds
\* ---------------------------------------------------------------------------

\* The longest side of an image a call is given pixel by pixel.
MaxSide == 3

\* const maxSample = 320
maxSample == 320

\* const threshold = 60
threshold == 60

\* Colours are <<r, g, b>>; the raw buffer is read with three channels.
White == <<255, 255, 255>>

OffWhite == <<250, 250, 250>>

Grey == <<229, 229, 229>>

\* sampleWidth / sampleHeight: Math.max(1, Math.round(side * scale)) with
\* scale = Math.min(1, maxSample / Math.max(width, height)).
sampleSide(side, longer) ==
  IF longer <= maxSample THEN Max(1, side)
  ELSE Max(1, RoundDiv(side * maxSample, longer))

sampleSizeOf(width, height) ==
  [width |-> sampleSide(width, Max(width, height)),
   height |-> sampleSide(height, Max(width, height))]

\* readPixel(x, y): the pixel at idx = y * sampleWidth + x.
readPixel(pixels, sampleWidth, x, y) == pixels[y * sampleWidth + x + 1]

Abs(v) == IF v < 0 THEN -v ELSE v

\* Four times bg: the channel sums over the four corner pixels.
cornerSum(pixels, sampleWidth, sampleHeight) ==
  LET corners == <<readPixel(pixels, sampleWidth, 0, 0),
                   readPixel(pixels, sampleWidth, sampleWidth - 1, 0),
                   readPixel(pixels, sampleWidth, 0, sampleHeight - 1),
                   readPixel(pixels, sampleWidth, sampleWidth - 1, sampleHeight - 1)>>
  IN [c \in 1..3 |->
        corners[1][c] + corners[2][c] + corners[3][c] + corners[4][c]]

\* Four times |color - bg| summed over the channels.
distance4(color, avg) ==
  Abs(4 * color[1] - avg[1]) + Abs(4 * color[2] - avg[2])
    + Abs(4 * color[3] - avg[3])

\* brightness < 230 || variance > 12, on the fourfold sums: brightness is
\* (bg[0] + bg[1] + bg[2]) / 3, variance the mean over the corners of their
\* distance from bg.
notPlainLight(pixels, sampleWidth, sampleHeight) ==
  LET avg == cornerSum(pixels, sampleWidth, sampleHeight)
      corners == <<readPixel(pixels, sampleWidth, 0, 0),
                   readPixel(pixels, sampleWidth, sampleWidth - 1, 0),
                   readPixel(pixels, sampleWidth, 0, sampleHeight - 1),
                   readPixel(pixels, sampleWidth, sampleWidth - 1, sampleHeight - 1)>>
  IN \/ avg[1] + avg[2] + avg[3] < 230 * 3 * 4
     \/ distance4(corners[1], avg) + distance4(corners[2], avg)
          + distance4(corners[3], avg) + distance4(corners[4], avg) > 12 * 4 * 4

\* let minX = sampleWidth, minY = sampleHeight, maxX = -1, maxY = -1
noExtent(sampleWidth, sampleHeight) ==
  [minX |-> sampleWidth, minY |-> sampleHeight, maxX |-> -1, maxY |-> -1]

\* The four updates of the loop body, for the extents of two pixel ranges.
widen(e, f) ==
  [minX |-> Min(e.minX, f.minX), minY |-> Min(e.minY, f.minY),
   maxX |-> Max(e.maxX, f.maxX), maxY |-> Max(e.maxY, f.maxY)]

\* The loops over y and x: the extent [minX, minY, maxX, maxY] of the pixels
\* whose distance from bg exceeds the threshold.  The range of columns (rows)
\* is halved until one pixel (row) is left, and the halves' extents joined.
RECURSIVE scanRow(_, _, _, _, _, _, _)
scanRow(pixels, sampleWidth, avg, y, from, to, none) ==
  IF from > to THEN none
  ELSE IF from = to
    THEN IF distance4(readPixel(pixels, sampleWidth, from, y), avg)
              > 4 * threshold
           THEN [minX |-> from, minY |-> y, maxX |-> from, maxY |-> y]
           ELSE none
  ELSE LET mid == (from + to) \div 2
       IN widen(scanRow(pixels, sampleWidth, avg, y, from, mid, none),
                scanRow(pixels, sampleWidth, avg, y, mid + 1, to, none))

RECURSIVE scanRows(_, _, _, _, _, _)
scanRows(pixels, sampleWidth, avg, from, to, none) ==
  IF from > to THEN none
  ELSE IF from = to
    THEN scanRow(pixels, sampleWidth, avg, from, 0, sampleWidth - 1, none)
  ELSE LET mid == (from + to) \div 2
       IN widen(scanRows(pixels, sampleWidth, avg, from, mid, none),
                scanRows(pixels, sampleWidth, avg, mid + 1, to, none))

RECURSIVE Log2Floor(_)
Log2Floor(k) == IF k < 2 THEN 0 ELSE 1 + Log2Floor(k \div 2)

\* (a * 2^p) mod m.
RECURSIVE TimesPow2Mod(_, _, _)
TimesPow2Mod(a, p, m) ==
  IF p = 0 THEN a % m ELSE (2 * TimesPow2Mod(a, p - 1, m)) % m

\* scaleX = width / sampleWidth is a double: side / sample rounded to 53
\* bits, ties to even.  Its error is doubleError / sample units in the last
\* place (0 when the quotient is exact).
doubleError(side, sample) ==
  LET p == 52 - Log2Floor(side \div sample)
      r == TimesPow2Mod(side, p, sample)
      odd == TimesPow2Mod(side, p, 2 * sample) >= sample
  IN IF r = 0 THEN 0
     ELSE IF 2 * r > sample \/ (2 * r = sample /\ odd) THEN sample - r
     ELSE -r

\* Where the double n * scaleX lies when n * side / sample is the integer k:
\* above it (1), on it (0) or below it (-1).
productSide(n, side, sample) ==
  LET k == (n * side) \div sample
      err == doubleError(side, sample)
      e == Log2Floor(side \div sample)
      ek == Log2Floor(k)
  IN IF err > 0 /\ 2 * n * err * (2 ^ e) > sample * (2 ^ ek) THEN 1
     ELSE IF /\ err < 0
             /\ (IF k = 2 ^ ek THEN 4 ELSE 2) * n * (-err) * (2 ^ e)
                  > sample * (2 ^ ek)
       THEN -1
     ELSE 0

\* Math.floor(n * scaleX)
floorTimes(n, side, sample) ==
  LET k == (n * side) \div sample
  IN IF (n * side) % sample = 0 /\ n > 0 /\ productSide(n, side, sample) < 0
       THEN k - 1 ELSE k

\* Math.ceil(n * scaleX)
ceilTimes(n, side, sample) ==
  LET k == (n * side) \div sample
  IN IF (n * side) % sample # 0 THEN k + 1
     ELSE IF n > 0 /\ productSide(n, side, sample) > 0 THEN k + 1
     ELSE k

\* The extent scaled back to the image: x, y, w, h.
boxOf(ext, width, height, sample) ==
  Rect(Max(0, floorTimes(ext.minX, width, sample.width)),
       Max(0, floorTimes(ext.minY, height, sample.height)),
       Min(width, ceilTimes(ext.maxX - ext.minX + 1, width, sample.width)),
       Min(height, ceilTimes(ext.maxY - ext.minY + 1, height, sample.height)))

\* hasInset: a margin exceeds side * minInset, minInset = 0.02.
hasInset(box, width, height) ==
  \/ 100 * box.x > 2 * width
  \/ 100 * (width - (box.x + box.width)) > 2 * width
  \/ 100 * box.y > 2 * height
  \/ 100 * (height - (box.y + box.height)) > 2 * height

detectContentBounds_anyBox(pixels, width, height) ==
  LET sample == sampleSizeOf(width, height)
      avg == cornerSum(pixels, sample.width, sample.height)
      ext == scanRows(pixels, sample.width, avg, 0, sample.height - 1,
                      noExtent(sample.width, sample.height))
      box == boxOf(ext, width, height, sample)
  IN IF notPlainLight(pixels, sample.width, sample.height) THEN NoRect
     ELSE IF ext.maxX < ext.minX \/ ext.maxY < ext.minY THEN NoRect
     ELSE box

\* detectContentBounds on the pixels of the downsampled image (the buffer
\* itself when neither side exceeds maxSample); NoRect is null.
detectContentBounds(pixels, width, height) ==
  LET sample == sampleSizeOf(width, height)
      avg == cornerSum(pixels, sample.width, sample.height)
      ext == scanRows(pixels, sample.width, avg, 0, sample.height - 1,
                      noExtent(sample.width, sample.height))
      box == boxOf(ext, width, height, sample)
  IN IF notPlainLight(pixels, sample.width, sample.height) THEN NoRect
     ELSE IF ext.maxX < ext.minX \/ ext.maxY < ext.minY THEN NoRect
     ELSE IF ~hasInset(box, width, height) THEN NoRect
     ELSE box

\* The corner positions of a w x h buffer, as indices into it.
CornerIndices(w, h) == {1, w, (h - 1) * w + 1, h * w}

\* Every small image with a subject: corners white, nearly white or grey,
\* the other pixels grey inside the rectangle from column a to b and row c
\* to d (no subject when a > b) and white outside it.
SmallImages(most) ==
  UNION {
    {[size |-> [width |-> w, height |-> h],
      pixels |-> [i \in 1..(w * h) |->
                    LET x == (i - 1) % w
                        y == (i - 1) \div w
                    IN IF i \in CornerIndices(w, h) THEN corner[i]
                       ELSE IF /\ s[1] <= x /\ x <= s[2]
                               /\ s[3] <= y /\ y <= s[4] THEN Grey
                       ELSE White]] :
       corner \in [CornerIndices(w, h) -> {White, OffWhite, Grey}],
       s \in {<<1, 0, 1, 0>>} \cup
               {t \in (0..(w - 1)) \X (0..(w - 1)) \X (0..(h - 1)) \X (0..(h - 1)) :
                  t[1] <= t[2] /\ t[3] <= t[4]}} :
    w \in 1..most, h \in 1..most}

\* A larger image as sharp downsamples it: white, with a grey band from
\* column (or row) a to b of the downsampled middle row (column).
striped(width, height, a, b) ==
  LET sample == sampleSizeOf(width, height)
  IN [size |-> [width |-> width, height |-> height],
      pixels |-> [i \in 1..(sample.width * sample.height) |->
                    LET x == (i - 1) % sample.width
                        y == (i - 1) \div sample.width
                    IN IF width > height
                         THEN IF y = sample.height \div 2 /\ a <= x /\ x <= b
                                THEN Grey ELSE White
                         ELSE IF x = sample.width \div 2 /\ a <= y /\ y <= b
                                THEN Grey ELSE White]]

LargeImages(sides) ==
  {striped(side[1], side[2], a, b) :
     side \in sides, a \in {1, 80}, b \in {160, 319}}

DetectIdle ==
  /\ dpc = "idle"
  /\ imageSize = [width |-> 0, height |-> 0]
  /\ data = <<>>
  /\ bounds = NoRect

\* buildStampedImage calls detectContentBounds(resized, width, height).
DetectCall ==
  /\ dpc = "idle"
  /\ \E image \in SmallImages(MaxSide)
                     \cup LargeImages({<<332, 3>>, <<3, 332>>, <<1000, 3>>}) :
       /\ imageSize' = image.size
       /\ data' = image.pixels
  /\ dpc' = "called"
  /\ UNCHANGED bounds
  /\ UNCHANGED <<renderVars, exportVars, viewVars, uiVars>>

\* The call returns a box or null.
DetectReturn ==
  /\ dpc = "called"
  /\ bounds' = detectContentBounds(data, imageSize.width, imageSize.height)
  /\ dpc' = "returned"
  /\ UNCHANGED <<imageSize, data>>
  /\ UNCHANGED <<renderVars, exportVars, viewVars, uiVars>>

\* ---------------------------------------------------------------------------
\* The renderer's preview effect and the image:preview handler
\* ---------------------------------------------------------------------------

\* How often the effect's dependencies change.
MaxChanges == 3

\* The handler's '' and the renderer's null.
EmptyReply == [mime |-> "", of |-> 0]

Null == [mime |-> "null", of |-> 0]

previewReplyOf_fallback(mode, ok, version) ==
  IF mode = "original" \/ ~ok THEN [mime |-> "image/source", of |-> version]
  ELSE [mime |-> "image/jpeg", of |-> version]

\* What the handler returns: the source file as a data URL in original mode,
\* the rendered JPEG in final mode, '' when readFile or buildPreviewImage
\* threw.
previewReplyOf(mode, ok, version) ==
  IF ~ok THEN EmptyReply
  ELSE IF mode = "original" THEN [mime |-> "image/source", of |-> version]
  ELSE [mime |-> "image/jpeg", of |-> version]

\* url || null
orNull(url) == IF url = EmptyReply THEN Null ELSE url

ViewIdle ==
  /\ inputs = 0
  /\ requests = <<>>
  /\ previewUrl = Null
  /\ shownFrom = 0

\* The cleanup of the effect's previous run: cancelled = true and
\* clearTimeout(handle).
cleanedUp(runs) ==
  [i \in DOMAIN runs |->
     IF runs[i].cancelled THEN runs[i]
     ELSE [runs[i] EXCEPT !.cancelled = TRUE,
                          !.stage = IF @ = "timer" THEN "cleared" ELSE @]]

\* A dependency of the effect changes (another photo, edited metadata,
\* export size, preview mode): the previous run is cleaned up and the effect
\* runs again, setting null without a current photo and arming the 300 ms
\* timer with one.
InputsChange ==
  /\ inputs < MaxChanges
  /\ inputs' = inputs + 1
  /\ \E photo \in BOOLEAN, mode \in {"final", "original"} :
       IF photo
         THEN /\ requests' = Append(cleanedUp(requests),
                                   [inputs |-> inputs', mode |-> mode,
                                    cancelled |-> FALSE, stage |-> "timer",
                                    rendered |-> "none", reply |-> EmptyReply])
              /\ UNCHANGED <<previewUrl, shownFrom>>
         ELSE /\ mode = "final"
              /\ requests' = cleanedUp(requests)
              /\ previewUrl' = Null
              /\ shownFrom' = 0
  /\ UNCHANGED <<renderVars, exportVars, detectVars, uiVars>>

\* The timer fires: getPreview is invoked and the handler starts.
TimerFires(i) ==
  /\ requests[i].stage = "timer"
  /\ requests' = [requests EXCEPT ![i].stage = "invoked"]
  /\ UNCHANGED <<inputs, previewUrl, shownFrom>>
  /\ UNCHANGED <<renderVars, exportVars, detectVars, uiVars>>

\* The handler's await settles: readFile or buildPreviewImage resolved, or
\* threw and was caught; the handler returns.
HandlerReturns(i) ==
  /\ requests[i].stage = "invoked"
  /\ \E ok \in BOOLEAN :
       requests' = [requests EXCEPT
                      ![i].stage = "replied",
                      ![i].rendered = IF ok THEN "image" ELSE "throws",
                      ![i].reply = previewReplyOf(requests[i].mode, ok,
                                                  requests[i].inputs)]
  /\ UNCHANGED <<inputs, previewUrl, shownFrom>>
  /\ UNCHANGED <<renderVars, exportVars, detectVars, uiVars>>

ResponseArrives_unkeyed(i) ==
  /\ requests[i].stage = "replied"
  /\ requests' = [requests EXCEPT ![i].stage = "settled"]
  /\ previewUrl' = orNull(requests[i].reply)
  /\ shownFrom' = i
  /\ UNCHANGED inputs
  /\ UNCHANGED <<renderVars, exportVars, detectVars, uiVars>>

\* The response reaches the renderer: if (!cancelled) setPreviewUrl(url || null).
ResponseArrives(i) ==
  /\ requests[i].stage = "replied"
  /\ requests' = [requests EXCEPT ![i].stage = "settled"]
  /\ IF requests[i].cancelled
       THEN UNCHANGED <<previewUrl, shownFrom>>
       ELSE /\ previewUrl' = orNull(requests[i].reply)
            /\ shownFrom' = i
  /\ UNCHANGED inputs
  /\ UNCHANGED <<renderVars, exportVars, detectVars, uiVars>>

\* ---------------------------------------------------------------------------
\* The renderer's export trigger (handleExport)
\* ---------------------------------------------------------------------------

\* How many times export is triggered.
MaxTriggers == 4

TriggerIdle ==
  /\ isExporting = FALSE
  /\ handlers = <<>>

\* The handlers whose startExport call has not returned yet.
Invoked == {i \in DOMAIN handlers : handlers[i] = "invoked"}

\* The button, Ctrl/Cmd+Enter or menu:export calls handleExport: it returns
\* at once while isExporting, or with a status message when nothing is ready
\* to export, and otherwise awaits openExportDirectory().
ExportTrigger ==
  /\ Len(handlers) < MaxTriggers
  /\ \E ready \in BOOLEAN :
       handlers' = Append(handlers,
                          IF isExporting THEN "ignored"
                          ELSE IF ~ready THEN "refused"
                          ELSE "dialog")
  /\ UNCHANGED isExporting
  /\ UNCHANGED exceptTrigger

\* The directory dialog is dismissed: if (!exportDir) return.
DialogCancelled(i) ==
  /\ handlers[i] = "dialog"
  /\ handlers' = [handlers EXCEPT ![i] = "cancelled"]
  /\ UNCHANGED isExporting
  /\ UNCHANGED exceptTrigger

\* A directory is chosen: setIsExporting(true) and startExport is invoked.
DialogChosen(i) ==
  /\ handlers[i] = "dialog"
  /\ handlers' = [handlers EXCEPT ![i] = "invoked"]
  /\ isExporting' = TRUE
  /\ UNCHANGED exceptTrigger

\* startExport resolves or rejects; finally setIsExporting(false).
ExportSettled(i) ==
  /\ handlers[i] = "invoked"
  /\ \E ok \in BOOLEAN :
       handlers' = [handlers EXCEPT ![i] = IF ok THEN "returned" ELSE "threw"]
  /\ isExporting' = FALSE
  /\ UNCHANGED exceptTrigger

\* ---------------------------------------------------------------------------
\* Overlapping saves of one project (project:save, writeJsonAtomic)
\* ---------------------------------------------------------------------------

\* The renderer's two sources of project:save calls.
Savers == {"manual", "autosave"}

\* How many different project contents a save may carry.
MaxVersions == 3

NoSave == [stage |-> "idle", data |-> 0]

SavesIdle == saves = [c \in Savers |-> NoSave]

\* project:save is invoked with the project's current content; the handler
\* runs writeJsonAtomic up to its first await: fs.writeFile(tempPath, payload).
SaveWrite(c) ==
  /\ saves[c].stage = "idle"
  /\ \E version \in 1..MaxVersions :
       /\ saves' = [saves EXCEPT ![c] = [stage |-> "written", data |-> version]]
       /\ files' = WriteFile(files, tempPathOf(projectPath),
                             Content("project", "json", version))
  /\ UNCHANGED exceptSaves

\* await fs.rm(filePath, {force: true})
SaveRm(c) ==
  /\ saves[c].stage = "written"
  /\ saves' = [saves EXCEPT ![c].stage = "removed"]
  /\ files' = RemoveFile(files, projectPath)
  /\ UNCHANGED exceptSaves

\* await fs.rename(tempPath, filePath): the temp file, whatever it holds by
\* now, becomes the project file; without a temp file rename rejects (ENOENT)
\* and so does the call.
SaveMove(c) ==
  /\ saves[c].stage = "removed"
  /\ IF Exists(files, tempPathOf(projectPath))
       THEN /\ saves' = [saves EXCEPT ![c].stage = "saved"]
            /\ files' =
                 LET temp == CHOOSE f \in files : f.path = tempPathOf(projectPath)
                 IN WriteFile(RemoveFile(files, temp.path), projectPath,
                              temp.content)
       ELSE /\ saves' = [saves EXCEPT ![c].stage = "threw"]
            /\ UNCHANGED files
  /\ UNCHANGED exceptSaves

\* ---------------------------------------------------------------------------
\* Edits, the dirty flag, autosave and manual save (renderer)
\* ---------------------------------------------------------------------------

\* How many edits the user makes.
MaxEdits == 3

NoCall == [stage |-> "idle", data |-> 0]

\* A project file is open and holds the project as loaded.
EditIdle ==
  /\ edits = 0
  /\ latestProjectRef = 0
  /\ dirtyRef = FALSE
  /\ suppressDirtyRef = FALSE
  /\ autoSavingRef = FALSE
  /\ autosave = NoCall
  /\ manualSave = NoCall
  /\ savedProject = 0

\* The user edits metadata or the selection: setPhotos, and after the render
\* the two effects store the new content in latestProjectRef and set
\* dirtyRef unless suppressDirtyRef is set.
Edit ==
  /\ edits < MaxEdits
  /\ edits' = edits + 1
  /\ latestProjectRef' = edits'
  /\ dirtyRef' = IF suppressDirtyRef THEN dirtyRef ELSE TRUE
  /\ UNCHANGED <<suppressDirtyRef, autoSavingRef, autosave, manualSave,
                 savedProject>>
  /\ UNCHANGED exceptEdit

\* The 60 s interval fires with something to save: the content of
\* latestProjectRef goes into saveProject.  (With autoSavingRef set or
\* dirtyRef clear the callback returns at once.)
AutosaveTick ==
  /\ ~autoSavingRef /\ dirtyRef
  /\ autoSavingRef' = TRUE
  /\ autosave' = [stage |-> "saving", data |-> latestProjectRef]
  /\ UNCHANGED <<edits, latestProjectRef, dirtyRef, suppressDirtyRef,
                 manualSave, savedProject>>
  /\ UNCHANGED exceptEdit

\* The autosave's saveProject resolves (dirtyRef.current = false) or
\* rejects; finally autoSavingRef.current = false.
AutosaveSettles ==
  /\ autosave.stage = "saving"
  /\ \E ok \in BOOLEAN :
       /\ savedProject' = IF ok THEN autosave.data ELSE savedProject
       /\ dirtyRef' = IF ok THEN FALSE ELSE dirtyRef
  /\ autoSavingRef' = FALSE
  /\ autosave' = NoCall
  /\ UNCHANGED <<edits, latestProjectRef, suppressDirtyRef, manualSave>>
  /\ UNCHANGED exceptEdit

\* handleSaveProject with a project path: the photos of the current render
\* go into saveProject.
ManualSave ==
  /\ manualSave.stage = "idle"
  /\ manualSave' = [stage |-> "saving", data |-> edits]
  /\ UNCHANGED <<edits, latestProjectRef, dirtyRef, suppressDirtyRef,
                 autoSavingRef, autosave, savedProject>>
  /\ UNCHANGED exceptEdit

\* The manual save's saveProject resolves: dirtyRef.current = false,
\* suppressDirtyRef.current = true and a zero-delay timer to clear it; or it
\* rejects and the catch reports the failure.
ManualSaveSettles ==
  /\ manualSave.stage = "saving"
  /\ \E ok \in BOOLEAN :
       /\ savedProject' = IF ok THEN manualSave.data ELSE savedProject
       /\ dirtyRef' = IF ok THEN FALSE ELSE dirtyRef
       /\ suppressDirtyRef' = IF ok THEN TRUE ELSE suppressDirtyRef
       /\ manualSave' = IF ok THEN [manualSave EXCEPT !.stage = "timer"]
                              ELSE NoCall
  /\ UNCHANGED <<edits, latestProjectRef, autoSavingRef, autosave>>
  /\ UNCHANGED exceptEdit

\* setTimeout(() => { suppressDirtyRef.current = false }, 0)
ManualSaveTimer ==
  /\ manualSave.stage = "timer"
  /\ suppressDirtyRef' = FALSE
  /\ manualSave' = NoCall
  /\ UNCHANGED <<edits, latestProjectRef, dirtyRef, autoSavingRef, autosave,
                 savedProject>>
  /\ UNCHANGED exceptEdit

\* ---------------------------------------------------------------------------
\* The thumbnail grid: current photo and multi-selection (renderer)
\* ---------------------------------------------------------------------------

\* How many photos the project has; the photo at index i has id i + 1.
MaxPhotos == 4

\* The page sizes the grid takes: rows x columns with two to four columns.
PageSizes == {2, 3, 4}

NoPhoto == 0

NoAnchor == -1

idAt(position) == position + 1

\* After a project or folder is loaded into a window that shows one row of
\* two thumbnails: the first photo is current and alone in the
\* multi-selection.
SelectIdle ==
  /\ pageSize = 2
  /\ pageIndex = 0
  /\ currentPhotoId = idAt(0)
  /\ multiSelectedIds = {idAt(0)}
  /\ selectionAnchorIndex = 0

\* The indices of the photos on a page.
visibleIndices(page, size) ==
  {i \in 0..(MaxPhotos - 1) : page * size <= i /\ i < (page + 1) * size}

\* handleThumbnailClick(event, index, id) on a thumbnail of the current page.
ThumbnailClick ==
  \E clicked \in visibleIndices(pageIndex, pageSize),
     isCtrl \in BOOLEAN, isShift \in BOOLEAN :
    /\ IF isShift /\ selectionAnchorIndex # NoAnchor
         THEN /\ multiSelectedIds' =
                   {idAt(i) : i \in Min(selectionAnchorIndex, clicked)
                                      ..Max(selectionAnchorIndex, clicked)}
              /\ UNCHANGED selectionAnchorIndex
         ELSE IF isCtrl
           THEN /\ multiSelectedIds' =
                     LET next == IF idAt(clicked) \in multiSelectedIds
                                   THEN multiSelectedIds \ {idAt(clicked)}
                                   ELSE multiSelectedIds \cup {idAt(clicked)}
                     IN IF next = {} THEN {idAt(clicked)} ELSE next
                /\ selectionAnchorIndex' = clicked
           ELSE /\ multiSelectedIds' = {idAt(clicked)}
                /\ selectionAnchorIndex' = clicked
    /\ currentPhotoId' = idAt(clicked)
    /\ UNCHANGED <<pageSize, pageIndex>>
    /\ UNCHANGED exceptSelect

\* selectPhotoAtIndex(targetIndex), called with an index inside the list.
selectPhotoAtIndex(targetIndex) ==
  /\ currentPhotoId' = idAt(targetIndex)
  /\ multiSelectedIds' = {idAt(targetIndex)}
  /\ selectionAnchorIndex' = targetIndex
  /\ pageIndex' = targetIndex \div pageSize
  /\ UNCHANGED pageSize
  /\ UNCHANGED exceptSelect

\* handleSelectPrev: the photo before the current one, if any.
SelectPrev ==
  /\ currentPhotoId # NoPhoto
  /\ currentPhotoId - 1 > 0
  /\ selectPhotoAtIndex(currentPhotoId - 2)

\* handleSelectNext: the photo after the current one, if any.
SelectNext ==
  /\ currentPhotoId # NoPhoto
  /\ currentPhotoId - 1 < MaxPhotos - 1
  /\ selectPhotoAtIndex(currentPhotoId)

\* The page/current-photo effect: with the current photo off the page, the
\* first photo of the page (null beyond the end of the list) becomes current
\* and alone in the multi-selection.
pageEffect(page, size, selection) ==
  IF selection.current # NoPhoto
       /\ selection.current - 1 \in visibleIndices(page, size)
    THEN selection
    ELSE IF page * size < MaxPhotos
      THEN [current |-> idAt(page * size), multi |-> {idAt(page * size)},
            anchor |-> page * size]
      ELSE [current |-> NoPhoto, multi |-> {}, anchor |-> NoAnchor]

\* The selection as the state holds it.
selectionNow ==
  [current |-> currentPhotoId, multi |-> multiSelectedIds,
   anchor |-> selectionAnchorIndex]

\* A page button sets pageIndex, and the page effect runs.
PageChange ==
  \E page \in 0..((MaxPhotos - 1) \div pageSize) :
    /\ page # pageIndex
    /\ pageIndex' = page
    /\ LET after == pageEffect(page, pageSize, selectionNow)
       IN /\ currentPhotoId' = after.current
          /\ multiSelectedIds' = after.multi
          /\ selectionAnchorIndex' = after.anchor
    /\ UNCHANGED pageSize
    /\ UNCHANGED exceptSelect

\* The grid is resized: setPageSize; the effects run with the new page size
\* and the old page index, one of them clamps the page index to the last
\* page, and the page effect runs again after that render.
Resize ==
  \E size \in PageSizes :
    /\ size # pageSize
    /\ pageSize' = size
    /\ pageIndex' = Min(pageIndex, (MaxPhotos - 1) \div size)
    /\ LET after == pageEffect(pageIndex', size,
                               pageEffect(pageIndex, size, selectionNow))
       IN /\ currentPhotoId' = after.current
          /\ multiSelectedIds' = after.multi
          /\ selectionAnchorIndex' = after.anchor
    /\ UNCHANGED exceptSelect

\* ---------------------------------------------------------------------------
\* Recent projects (recent:add, upsertRecentProject)
\* ---------------------------------------------------------------------------

\* const RECENT_LIMIT = 10
RECENT_LIMIT == 10

\* How many recent:add calls are made.
MaxAdds == 11

RecentIdle ==
  /\ recentFile = <<>>
  /\ adds = 0

\* `${kind}:${path}`: kind is 'folder' or 'project', so two keys are equal
\* exactly when kind and path are.
keyOf(item) == <<item.kind, item.path>>

upsertRecentProject_unbounded(list, entry, now) ==
  LET key == keyOf(entry)
      cleaned == SelectSeq(list, LAMBDA item : keyOf(item) # key)
  IN <<[kind |-> entry.kind, path |-> entry.path, lastOpenedAt |-> now]>>
       \o cleaned

\* upsertRecentProject: the list written back to RECENT_FILE.
upsertRecentProject(list, entry, now) ==
  LET key == keyOf(entry)
      cleaned == SelectSeq(list, LAMBDA item : keyOf(item) # key)
      next == <<[kind |-> entry.kind, path |-> entry.path,
                 lastOpenedAt |-> now]>> \o cleaned
  IN SubSeq(next, 1, Min(Len(next), RECENT_LIMIT))

\* The entries a call may be made with: a project never opened before, the
\* entry at the head or at the tail of the list again, or the folder of the
\* project at the head.
EntriesToAdd ==
  {[kind |-> "project", path |-> adds + 1]}
    \cup (IF recentFile = <<>> THEN {}
          ELSE {[kind |-> recentFile[1].kind, path |-> recentFile[1].path],
                [kind |-> recentFile[Len(recentFile)].kind,
                 path |-> recentFile[Len(recentFile)].path],
                [kind |-> "folder", path |-> recentFile[1].path]})

\* One recent:add call from its invocation to its return, with no other
\* call in between: the list is read, the entry is put in front and the
\* list is written back.  (A call whose write fails changes nothing.)
RecentAdd ==
  /\ adds < MaxAdds
  /\ adds' = adds + 1
  /\ \E entry \in EntriesToAdd :
       recentFile' = upsertRecentProject(recentFile, entry, adds')
  /\ UNCHANGED exceptRecent

\* ---------------------------------------------------------------------------
\* The launch payload: launcher -> main process -> main window
\* ---------------------------------------------------------------------------

\* How often the main renderer's listener effect runs (the mount and the
\* re-runs after its dependencies changed).
MaxEffectRuns == 3

\* null
NoLaunch == "null"

LaunchTypes == {"create", "open-project"}

\* The launcher is showing; there is no main window.
LaunchIdle ==
  /\ pendingLaunchPayload = NoLaunch
  /\ launchMessage = [stage |-> "none", launch |-> NoLaunch]
  /\ listening = FALSE
  /\ payloadRequests = <<>>
  /\ launchHandledRef = FALSE
  /\ loads = 0

\* launcher:create-project or launcher:open-project: openMainWindow stores
\* the payload, creates the main window and arms did-finish-load.
OpenMainWindow ==
  /\ launchMessage.stage = "none"
  /\ \E type \in LaunchTypes :
       /\ pendingLaunchPayload' = type
       /\ launchMessage' = [stage |-> "armed", launch |-> type]
  /\ UNCHANGED <<listening, payloadRequests, launchHandledRef, loads>>
  /\ UNCHANGED exceptLaunch

handleLaunchPayload_unguarded(launch) ==
  IF launch = NoLaunch
    THEN UNCHANGED <<launchHandledRef, loads>>
    ELSE /\ launchHandledRef' = TRUE
         /\ loads' = loads + 1

\* handleLaunchPayload: nothing for null or once a payload was handled;
\* otherwise the ref is set and loadDirectory or loadProjectByPath starts.
handleLaunchPayload(launch) ==
  IF launch = NoLaunch \/ launchHandledRef
    THEN UNCHANGED <<launchHandledRef, loads>>
    ELSE /\ launchHandledRef' = TRUE
         /\ loads' = loads + 1

\* The main renderer's effect runs: the launcher listeners are registered
\* and getLaunchPayload is invoked.
EffectRuns ==
  /\ launchMessage.stage # "none"
  /\ Len(payloadRequests) < MaxEffectRuns
  /\ listening' = TRUE
  /\ payloadRequests' = Append(payloadRequests,
                               [stage |-> "invoked", reply |-> NoLaunch])
  /\ UNCHANGED <<pendingLaunchPayload, launchMessage, launchHandledRef, loads>>
  /\ UNCHANGED exceptLaunch

\* launcher:get-payload: returns the pending payload and clears it.
GetPayload(i) ==
  /\ payloadRequests[i].stage = "invoked"
  /\ payloadRequests' = [payloadRequests EXCEPT
                           ![i] = [stage |-> "replied",
                                   reply |-> pendingLaunchPayload]]
  /\ pendingLaunchPayload' = NoLaunch
  /\ UNCHANGED <<launchMessage, listening, launchHandledRef, loads>>
  /\ UNCHANGED exceptLaunch

\* getLaunchPayload().then(handleLaunchPayload)
PayloadArrives(i) ==
  /\ payloadRequests[i].stage = "replied"
  /\ payloadRequests' = [payloadRequests EXCEPT ![i].stage = "settled"]
  /\ handleLaunchPayload(payloadRequests[i].reply)
  /\ UNCHANGED <<pendingLaunchPayload, launchMessage, listening>>
  /\ UNCHANGED exceptLaunch

\* did-finish-load: sendLaunchPayload sends launcher:create-project or
\* launcher:open-project to the main window.
DidFinishLoad ==
  /\ launchMessage.stage = "armed"
  /\ launchMessage' = [launchMessage EXCEPT !.stage = "sent"]
  /\ UNCHANGED <<pendingLaunchPayload, listening, payloadRequests,
                 launchHandledRef, loads>>
  /\ UNCHANGED exceptLaunch

\* The message reaches the renderer: its listener calls handleLaunchPayload;
\* without a registered listener the message is dropped.
MessageArrives ==
  /\ launchMessage.stage = "sent"
  /\ IF listening
       THEN /\ launchMessage' = [launchMessage EXCEPT !.stage = "delivered"]
            /\ handleLaunchPayload(launchMessage.launch)
       ELSE /\ launchMessage' = [launchMessage EXCEPT !.stage = "dropped"]
            /\ UNCHANGED <<launchHandledRef, loads>>
  /\ UNCHANGED <<pendingLaunchPayload, listening, payloadRequests>>
  /\ UNCHANGED exceptLaunch

\* The export folders already on disk when the program starts.
ExistingDirs(k) ==
  {[root |-> d, stamp |-> 0, n |-> i] : d \in ExportDirs, i \in 0..(k - 1)}

UiIdle ==
  /\ TriggerIdle /\ SavesIdle /\ EditIdle /\ SelectIdle /\ RecentIdle
  /\ LaunchIdle

Init ==
  /\ RenderIdle
  /\ ExportIdle
  /\ DetectIdle
  /\ ViewIdle
  /\ UiIdle
  /\ \E k \in 0..MaxExisting : dirs = ExistingDirs(k)
  /\ files = OriginalFiles

\* One export run.
Next == ExportNext("r1", ItemLists(MaxItems))

Spec == Init /\ [][Next]_vars

\* One export run, with thumbnails, previews and project saves around it.
NextFiles ==
  \/ ExportNext("r1", ItemLists(MaxSharedItems))
  \/ Thumbnail
  \/ Preview
  \/ SaveWriteTemp
  \/ SaveRemove
  \/ SaveRename

SpecFiles == Init /\ [][NextFiles]_vars

\* Two export:start invocations, numbered in order of arrival, whose awaits
\* interleave: ipcMain.handle starts a handler for every invoke it receives.
NextOverlap ==
  \E r \in Runs :
    /\ r = "r2" => pc["r1"] # "idle"
    /\ ExportNext(r, ItemLists(MaxSharedItems))

SpecOverlap == Init /\ [][NextOverlap]_vars

InitRender ==
  /\ RenderIdle /\ ExportIdle /\ DetectIdle /\ ViewIdle /\ UiIdle
  /\ dirs = {} /\ files = OriginalFiles

NextRender ==
  \/ RenderCall
  \/ RenderLayout
  \/ RenderPlace
  \/ RenderDetect
  \/ RenderCompose
  \/ RenderReturn

SpecRender == InitRender /\ [][NextRender]_vars

\* Calls of detectContentBounds, on every small image and on a few
\* downsampled ones.
NextDetect == DetectCall \/ DetectReturn

SpecDetect == InitRender /\ [][NextDetect]_vars

\* The preview pane: dependency changes, timers, handler runs and responses
\* in any order.
NextView ==
  \/ InputsChange
  \/ \E i \in DOMAIN requests :
       TimerFires(i) \/ HandlerReturns(i) \/ ResponseArrives(i)

SpecView == InitRender /\ [][NextView]_vars

\* Export triggers, directory dialogs and export runs in any order.
NextTrigger ==
  \/ ExportTrigger
  \/ \E i \in DOMAIN handlers :
       DialogCancelled(i) \/ DialogChosen(i) \/ ExportSettled(i)

SpecTrigger == InitRender /\ [][NextTrigger]_vars

\* A project that has or has not been saved before.
InitSaves ==
  /\ RenderIdle /\ ExportIdle /\ DetectIdle /\ ViewIdle /\ UiIdle
  /\ dirs = {}
  /\ \E version \in 0..MaxVersions :
       files = IF version = 0 THEN OriginalFiles
               ELSE WriteFile(OriginalFiles, projectPath,
                              Content("project", "json", version))

\* A manual save and an autosave whose awaits interleave.
NextSaves == \E c \in Savers : SaveWrite(c) \/ SaveRm(c) \/ SaveMove(c)

SpecSaves == InitSaves /\ [][NextSaves]_vars

\* Edits, autosave ticks and manual saves in any order.
NextEdit ==
  \/ Edit
  \/ AutosaveTick
  \/ AutosaveSettles
  \/ ManualSave
  \/ ManualSaveSettles
  \/ ManualSaveTimer

SpecEdit == InitRender /\ [][NextEdit]_vars

\* Clicks, keyboard navigation and page changes in any order.
NextSelect ==
  ThumbnailClick \/ SelectPrev \/ SelectNext \/ PageChange \/ Resize

SpecSelect == InitRender /\ [][NextSelect]_vars

\* recent:add calls one after the other.
NextRecent == RecentAdd

SpecRecent == InitRender /\ [][NextRecent]_vars

\* The two deliveries of a launch payload in any order.
NextLaunch ==
  \/ OpenMainWindow
  \/ EffectRuns
  \/ DidFinishLoad
  \/ MessageArrives
  \/ \E i \in DOMAIN payloadRequests : GetPayload(i) \/ PayloadArrives(i)

SpecLaunch == InitRender /\ [][NextLaunch]_vars

\* ---------------------------------------------------------------------------
\* Properties of the export pipeline (Spec, SpecOverlap, SpecFiles)
\* ---------------------------------------------------------------------------

Completed(r) == pc[r] = "returned"

ItemCount(r) == Len(payload[r].items)

\* C1: a run that reaches Completed reports exported + failed = total, and
\* total is the number of items passed in.
C1_CountsAddUp ==
  \A r \in Runs :
    Completed(r) =>
      /\ result[r].exported + result[r].failed = result[r].total
      /\ result[r].total = ItemCount(r)

\* C1 witness: a completed run in which some items were exported and some
\* failed.
C1_Witness ==
  /\ Completed("r1")
  /\ result["r1"].exported > 0
  /\ result["r1"].failed > 0

\* C2: a run over N items emits N progress events, the k-th with current = k,
\* total = N and the k-th item's filename; while item k is being attempted
\* exactly the events of the items before it have been emitted.
C2_OneProgressEventPerItem ==
  \A r \in Runs :
    /\ Completed(r) =>
         /\ Len(events[r]) = ItemCount(r)
         /\ \A k \in 1..ItemCount(r) :
              events[r][k] = [current |-> k, total |-> ItemCount(r),
                              filename |-> payload[r].items[k].filename]
    /\ pc[r] \in {"mkdir", "render", "write"} =>
         /\ Len(events[r]) = index[r]
         /\ \A k \in 1..Len(events[r]) : events[r][k].current = k

\* C2 witness: a completed run of three items, one of which failed.
C2_Witness ==
  /\ Completed("r1")
  /\ ItemCount("r1") = 3
  /\ Cardinality(raised["r1"]) = 1
  /\ Len(events["r1"]) = 3

\* C3: an error while processing an item never aborts the run: the handler
\* throws only before the first item, and a completed run has processed
\* every item, with failed = the number of items that raised and exported =
\* the number of the others (N - 1, 1, N and N events for one bad item).
C3_FailuresAreIsolated ==
  \A r \in Runs :
    /\ pc[r] = "rejected" => (raised[r] = {} /\ index[r] = 0)
    /\ Completed(r) =>
         /\ index[r] = ItemCount(r)
         /\ result[r].failed = Cardinality(raised[r])
         /\ result[r].exported = ItemCount(r) - Cardinality(raised[r])
         /\ Cardinality(raised[r]) = 1 =>
              /\ result[r].exported = ItemCount(r) - 1
              /\ result[r].failed = 1
              /\ result[r].total = ItemCount(r)
              /\ Len(events[r]) = ItemCount(r)

\* C3 witness: the first of three items raised an error (an invalid source
\* path), and the two after it were exported.
C3_Witness ==
  /\ Completed("r1")
  /\ ItemCount("r1") = 3
  /\ raised["r1"] = {0}
  /\ result["r1"].exported = 2

\* The candidate names ensureUniqueDir walks through before name d.
EarlierCandidates(d) == {[d EXCEPT !.n = j] : j \in 0..(d.n - 1)}

\* C4: the directory a run resolved is the first candidate that did not
\* exist when probed and was newly created by that run; no existing
\* directory, and so no other run's directory, is reused.
C4_OutputDirIsNew ==
  \A r \in Runs :
    outputRoot[r] # NoDir =>
      /\ EarlierCandidates(outputRoot[r]) \subseteq dirs
      /\ created[r]
      /\ \A q \in Runs \ {r} : outputRoot[q] # outputRoot[r]

\* The extension the claim prescribes for a source extension.
ExpectedExt(ext) == IF ext \in {".png", ".PNG"} THEN ".png" ELSE ".jpg"

\* Where the claim puts the output of an item.
ExpectedPath(r, item) ==
  [root |-> outputRoot[r].root,
   folder |-> [stamp |-> outputRoot[r].stamp, n |-> outputRoot[r].n],
   dir |-> item.relativePath.dir,
   name |-> item.relativePath.name,
   ext |-> ExpectedExt(item.relativePath.ext)]

\* The items of run r that were written so far.
Exported(r) == {k \in 1..index[r] : (k - 1) \notin raised[r]}

StampedFiles == {f \in files : f.content.kind = "stamped"}

\* C5: every exported item d/n.e lies at <output directory>/d/n.e' with
\* e' = .png iff e is .png in any letter case, .jpg otherwise, and holds PNG
\* bytes exactly when e' is .png, JPEG bytes otherwise.
C5_OutputPathAndFormat ==
  \A r \in Runs :
    /\ \A k \in Exported(r) :
         \E f \in StampedFiles :
           /\ f.path = ExpectedPath(r, payload[r].items[k])
           /\ f.content.format = "png" <=> f.path.ext = ".png"
           /\ f.content.format = "jpeg" <=> f.path.ext # ".png"
    /\ pc[r] # "idle" /\ pc["r2"] = "idle" =>
         \A f \in StampedFiles :
           \E k \in Exported(r) : f.path = ExpectedPath(r, payload[r].items[k])

\* C5 witness: an upper-case .PNG source in a sub-directory was exported.
C5_Witness ==
  /\ Completed("r1")
  /\ \E k \in Exported("r1") :
       /\ payload["r1"].items[k].relativePath.ext = ".PNG"
       /\ payload["r1"].items[k].relativePath.dir = "sub"

Laid == rpc \in {"placed", "done", "failed"}

Placed == rpc \in {"resized", "detected", "done", "failed"}

\* Two rects share no pixel.
Disjoint(a, b) ==
  \/ a.width = 0 \/ a.height = 0 \/ b.width = 0 \/ b.height = 0
  \/ a.x + a.width <= b.x \/ b.x + b.width <= a.x
  \/ a.y + a.height <= b.y \/ b.y + b.height <= a.y

\* A rect lies entirely within the canvas.
Within(a, canvas) ==
  /\ a.x >= 0 /\ a.y >= 0
  /\ a.x + a.width <= canvas.width
  /\ a.y + a.height <= canvas.height

\* C8: for every canvas, both layout modes and both values of includeText,
\* the image area and the text area returned by buildLayout share no pixel
\* and each lies entirely within the canvas.
C8_AreasDisjointWithinCanvas ==
  Laid => /\ Disjoint(layout.imageArea, layout.textArea)
          /\ Within(layout.imageArea, canvasSize)
          /\ Within(layout.textArea, canvasSize)

\* C9: with Source Info the placement rect lies inside the canvas and keeps
\* one text border of clearance on the caption side: below it in bottom
\* mode, to its right in right mode.
C9_PlacementClearsCaption ==
  (Placed /\ sourceInfo.present) =>
    LET textBorder == textBorderOf(getTypography(canvasSize).fontSize)
    IN /\ Within(imageRect, canvasSize)
       /\ layout.mode = "bottom" =>
            imageRect.y + imageRect.height <= canvasSize.height - textBorder
       /\ layout.mode = "right" =>
            imageRect.x + imageRect.width <= canvasSize.width - textBorder

\* C9 witness: a rendered source whose natural centering left less than one
\* text border below it, so that it was pulled up to exactly one text border.
C9_Witness ==
  /\ rpc = "done" /\ sourceInfo.present /\ layout.mode = "bottom"
  /\ imageRect.height > 0
  /\ imageRect.y + imageRect.height =
       canvasSize.height - textBorderOf(getTypography(canvasSize).fontSize)
  /\ 2 * imageRect.y < canvasSize.height - imageRect.height

\* The four presets as the claim lists them.
PresetPixels(size) ==
  CASE size = "5"  -> <<1500, 1050>>
    [] size = "5L" -> <<1500, 1125>>
    [] size = "6"  -> <<1800, 1200>>
    [] size = "6L" -> <<1800, 1350>>

\* C10: the export canvas is the preset's pixel size, width and height
\* swapped exactly when Source Info exists and the source is taller than wide.
C10_CanvasIsPresetSwappedIffPortrait ==
  (Laid /\ rq.kind = "export") =>
    LET p == PresetPixels(rq.size)
        hasInfo == rq.md.readable /\ rq.md.width > 0 /\ rq.md.height > 0
        portrait == hasInfo /\ rq.md.height > rq.md.width
    IN canvasSize = IF portrait THEN [width |-> p[2], height |-> p[1]]
                                ELSE [width |-> p[1], height |-> p[2]]

\* C10 witness: a square source with Source Info laid out for export,
\* the case that must not be swapped.
C10_Witness ==
  /\ Laid /\ rq.kind = "export" /\ sourceInfo.present
  /\ sourceInfo.width = sourceInfo.height
  /\ canvasSize.width > canvasSize.height

\* C11: the layout mode is "right" if and only if includeText is true, Source
\* Info exists and source height / source width is at least 1.8 (the ratio
\* 1.8 itself included); in every other case it is "bottom".
C11_RightIffExtremePortrait ==
  Laid =>
    LET hasInfo == rq.md.readable /\ rq.md.width > 0 /\ rq.md.height > 0
        extreme == hasInfo /\ 5 * rq.md.height >= 9 * rq.md.width
    IN /\ layout.mode \in {"right", "bottom"}
       /\ layout.mode = "right" <=> (rq.includeText /\ extreme)

\* C11 witness: a 1000 x 1800 source, exactly on the ratio, laid out with a
\* caption to the right.
C11_Witness ==
  /\ Laid /\ rq.includeText
  /\ sourceInfo.present /\ sourceInfo.width = 1000 /\ sourceInfo.height = 1800
  /\ layout.mode = "right"

\* C12: whenever includeText is false, the text area returned by buildLayout
\* has zero width or zero height, for every canvas and mode.
C12_NoTextNoBand ==
  (Laid /\ ~rq.includeText) =>
    (layout.textArea.width = 0 \/ layout.textArea.height = 0)

\* C12 witness: a layout built without text on a real canvas.
C12_Witness ==
  /\ Laid /\ ~rq.includeText
  /\ layout.imageArea.width > 0 /\ layout.imageArea.height > 0
  /\ layout.textArea.width = 0

\* ---------------------------------------------------------------------------
\* Properties of one render (SpecRender)
\* ---------------------------------------------------------------------------

\* C13 as stated: the render call fails whenever the source cannot be decoded
\* and also whenever the source's metadata cannot be read; it returns an
\* image in neither case.
C13_FailsWithoutDecodeOrMetadata ==
  rpc = "done" => (rq.decodable /\ rq.md.readable)

\* C13 amended: the render call fails whenever the source cannot be decoded
\* and never returns an image then; unreadable metadata alone does not fail
\* it: without Source Info a decodable source is still rendered, in bottom
\* mode on the unswapped canvas, contain-fit into the whole image area.
C13_FailsIffUndecodable ==
  /\ rpc = "done" => rq.decodable
  /\ (Placed /\ ~rq.decodable) => rpc = "failed"
  /\ (Placed /\ rq.decodable /\ ~sourceInfo.present) =>
       /\ rpc # "failed"
       /\ layout.mode = "bottom"
       /\ canvasSize = targetSizeOf(rq.kind, rq.size)
       /\ imageRect = layout.imageArea

\* C13 witness: an image was returned for a source whose metadata could not
\* be read.
C13_Witness ==
  /\ rpc = "done" /\ ~rq.md.readable /\ rq.decodable
  /\ imageRect = Rect(0, 0, canvasSize.width, canvasSize.height)

\* C14: content-bounds detection never fails a render: when
\* detectContentBounds throws or returns null the render still completes, and
\* its text layer is the one laid out against the full placement rect.
C14_DetectionNeverFailsRender ==
  contentBounds.outcome \in {"throws", "null"} =>
    /\ rpc \in {"detected", "done"}
    /\ contentRect = NoRect
    /\ rpc = "done" =>
         textLayer = buildPreviewSvg(rq.meta, layout, canvasSize, imageRect,
                                     imageRect)

\* C14 witness: a render completed after detectContentBounds threw, with a
\* caption laid out in the band.
C14_Witness ==
  /\ rpc = "done" /\ contentBounds.outcome = "throws"
  /\ textLayer.mode = "right" /\ textLayer.metaLine # <<>>

\* C20: with Source Info the placed size is width = round(srcWidth x s) and
\* height = round(srcHeight x s), where s = min(imageArea.width / srcWidth,
\* imageArea.height / srcHeight), for every layout mode and source size.
C20_PlacedSizeFitsImageArea ==
  (Placed /\ sourceInfo.present) =>
    LET area == layout.imageArea
        byWidth == area.width * sourceInfo.height <= area.height * sourceInfo.width
        num == IF byWidth THEN area.width ELSE area.height
        den == IF byWidth THEN sourceInfo.width ELSE sourceInfo.height
    IN /\ imageRect.width = RoundDiv(sourceInfo.width * num, den)
       /\ imageRect.height = RoundDiv(sourceInfo.height * num, den)

\* C21: for every canvas the engine produces, the caption band is thick
\* enough for the caption, textBorder >= minGap + ascent + descent +
\* edgeSafe, and so the bottom-mode baseline imageBottom + minGap + ascent is
\* never clamped to canvas height - edgeSafe - descent.
C21_BandHoldsCaption ==
  (rpc = "done" /\ rq.includeText) =>
    LET fontSize == getTypography(canvasSize).fontSize
        ascent == RoundDiv(fontSize * TEXT_ASCENT_RATIO, RatioDen)
        descent == Max(1, fontSize - ascent)
        minGap == CeilDiv(fontSize * TEXT_IMAGE_GAP_MIN_RATIO, RatioDen)
        edgeSafe == CeilDiv(fontSize * TEXT_EDGE_SAFE_RATIO, RatioDen)
    IN /\ textBorderOf(fontSize) >= minGap + ascent + descent + edgeSafe
       /\ textLayer.mode = "bottom" =>
            textLayer.textY = imageRect.y + imageRect.height + minGap + ascent

\* The rect the side caption hugs: the detected content, or the placed
\* image without one.
HuggedRect == IF contentRect = NoRect THEN imageRect ELSE contentRect

\* The band extremes and the estimated lengths of the two fragments of a side
\* caption, in tenths of a pixel.
SideCaption ==
  LET fontSize == getTypography(canvasSize).fontSize
      edgeSafe == CeilDiv(fontSize * TEXT_EDGE_SAFE_RATIO, RatioDen)
      top == RatioDen * edgeSafe
      bottom == RatioDen * (canvasSize.height - edgeSafe)
      dateLength == estimateTextLength(textLayer.dateLine, fontSize)
      metaLength == estimateTextLength(textLayer.metaLine, fontSize)
      hugTop == Min(Max(RatioDen * (HuggedRect.y + edgeSafe), top),
                    Max(top, bottom - dateLength))
      hugBottom ==
        Min(Max(RatioDen * (HuggedRect.y + HuggedRect.height - edgeSafe),
                Min(bottom, top + metaLength)),
            bottom)
  IN [top |-> top,
      bottom |-> bottom,
      fontSize |-> RatioDen * fontSize,
      both |-> dateLength + metaLength,
      hugGap |-> hugBottom - metaLength - (hugTop + dateLength),
      gap |-> textLayer.bottomY - metaLength - (textLayer.topY + dateLength)]

BothFragments ==
  /\ rpc = "done" /\ textLayer.mode = "right"
  /\ textLayer.dateLine # <<>> /\ textLayer.metaLine # <<>>

Processing(r) == pc[r] \in {"mkdir", "render", "write"}

Returned == dpc = "returned"

\* The downsampled image the call looked at.
Sampled == sampleSizeOf(imageSize.width, imageSize.height)

\* Its four corner pixels, in reading order.
CornerPixels ==
  <<data[1], data[Sampled.width],
    data[(Sampled.height - 1) * Sampled.width + 1],
    data[Sampled.height * Sampled.width]>>

\* Four times the corners' mean colour, per channel.
CornerTotal ==
  [c \in 1..3 |-> CornerPixels[1][c] + CornerPixels[2][c]
                   + CornerPixels[3][c] + CornerPixels[4][c]]

\* Four times the distance of a colour from the corners' mean colour.
FromBackground(colour) ==
  Abs(4 * colour[1] - CornerTotal[1]) + Abs(4 * colour[2] - CornerTotal[2])
    + Abs(4 * colour[3] - CornerTotal[3])

\* The mean colour of the corners has brightness below 230.
DimBackground == CornerTotal[1] + CornerTotal[2] + CornerTotal[3] < 12 * 230

\* The corners deviate from their mean colour by more than 12 on average.
UnevenBackground ==
  FromBackground(CornerPixels[1]) + FromBackground(CornerPixels[2])
    + FromBackground(CornerPixels[3]) + FromBackground(CornerPixels[4]) > 16 * 12

\* The positions <<x, y>> of the sampled pixels that differ from the
\* background by more than 60.
HotPixels ==
  {<<x, y>> \in (0..(Sampled.width - 1)) \X (0..(Sampled.height - 1)) :
     FromBackground(data[y * Sampled.width + x + 1]) > 4 * 60}

Least(S) == CHOOSE v \in S : \A u \in S : v <= u

Greatest(S) == CHOOSE v \in S : \A u \in S : v >= u

\* The smallest box of sampled pixels that holds every hot pixel.
MinimalBox ==
  LET xs == {p[1] : p \in HotPixels}
      ys == {p[2] : p \in HotPixels}
  IN Rect(Least(xs), Least(ys), Greatest(xs) - Least(xs) + 1,
          Greatest(ys) - Least(ys) + 1)

\* That box in the coordinates of the image, rounded outwards.
FoundBox ==
  LET b == MinimalBox
      W == imageSize.width
      H == imageSize.height
  IN Rect((b.x * W) \div Sampled.width, (b.y * H) \div Sampled.height,
          Min(W, CeilDiv(b.width * W, Sampled.width)),
          Min(H, CeilDiv(b.height * H, Sampled.height)))

\* None of the four margins of the found box exceeds 2% of its dimension.
NoMargin ==
  LET b == FoundBox
  IN /\ 50 * b.x <= imageSize.width
     /\ 50 * (imageSize.width - (b.x + b.width)) <= imageSize.width
     /\ 50 * b.y <= imageSize.height
     /\ 50 * (imageSize.height - (b.y + b.height)) <= imageSize.height

C18_BoxIsMinimalAndInside ==
  (Returned /\ bounds # NoRect) =>
    /\ Sampled = imageSize => bounds = MinimalBox
    /\ bounds.x >= 0 /\ bounds.y >= 0
    /\ bounds.x + bounds.width <= imageSize.width
    /\ bounds.y + bounds.height <= imageSize.height

\* ---------------------------------------------------------------------------
\* Properties of the preview (SpecView) and of project:save (SpecFiles)
\* ---------------------------------------------------------------------------

\* C15: in a single preview render an error raised while rendering reaches
\* the caller of the render, which returns no image (never a fallback image),
\* and the renderer that applies this response shows the empty preview:
\* previewUrl becomes null.
C15_RenderErrorShowsEmptyPreview ==
  \A i \in DOMAIN requests :
    LET q == requests[i]
    IN (q.stage \in {"replied", "settled"} /\ q.rendered = "throws") =>
         /\ q.reply = EmptyReply
         /\ shownFrom = i => previewUrl = Null
         /\ (q.stage = "settled" /\ ~q.cancelled) =>
              (shownFrom = i /\ previewUrl = Null)

\* C15 witness: a preview that was showing an image is emptied by the failed
\* render of the next request.
C15_Witness ==
  /\ Len(requests) >= 2
  /\ requests[1].stage = "settled" /\ requests[1].rendered = "image"
  /\ requests[2].stage = "settled" /\ requests[2].rendered = "throws"
  /\ ~requests[2].cancelled
  /\ shownFrom = 2 /\ previewUrl = Null

\* C23: stale preview results are discarded: a response is applied to
\* previewUrl only if the inputs it was requested with are still the current
\* inputs when it arrives; the response of a superseded request never changes
\* previewUrl, in whatever order the responses return.
C23_StaleResponsesDiscarded ==
  [][\A i \in DOMAIN requests :
       (requests[i].stage = "replied" /\ requests'[i].stage = "settled"
          /\ requests[i].inputs # inputs) =>
         (previewUrl' = previewUrl /\ shownFrom' = shownFrom)]_vars

\* C23 witness: the response of the superseded first request arrived after
\* the response of the second one, and the preview still shows the second.
C23_Witness ==
  /\ Len(requests) = 2
  /\ requests[1].stage = "settled" /\ requests[1].rendered = "image"
  /\ requests[1].inputs # inputs
  /\ requests[2].stage = "settled" /\ requests[2].rendered = "image"
  /\ requests[2].inputs = inputs
  /\ shownFrom = 2 /\ previewUrl = requests[2].reply

\* C16: project:save writes atomically: at every step of writeJsonAtomic,
\* and wherever it stops, the project path holds the complete previous or
\* the complete new content; a project file that exists is never missing
\* after a step.
C16_ProjectFileNeverMissing ==
  [][Exists(files, projectPath) => Exists(files', projectPath)]_vars

\* ---------------------------------------------------------------------------
\* Properties of the renderer's handlers
\* ---------------------------------------------------------------------------

\* C24: at most one export run is in progress at any time: a second
\* export:start is never invoked before the previous one has returned, also
\* when a trigger arrives while the directory dialog of an earlier trigger is
\* still open.
C24_OneExportAtATime == Cardinality(Invoked) <= 1

\* C26: when two saves to the same project path overlap, under every
\* interleaving of their writeJsonAtomic steps both calls succeed, and
\* afterwards the project file exists and holds exactly one of the two
\* payloads in full.
C26_OverlappingSavesBothSucceed ==
  (\A c \in Savers : saves[c].stage \in {"saved", "threw"}) =>
    /\ \A c \in Savers : saves[c].stage = "saved"
    /\ \E c \in Savers :
         [path |-> projectPath,
          content |-> Content("project", "json", saves[c].data)] \in files

\* C27: no edit is lost by saving: an edit made while a save is in flight
\* is still marked dirty once that save finishes, so that a later autosave
\* writes it; with no save in flight the project file holds the latest edits
\* or the dirty flag is set.
C27_UnsavedEditsStayDirty ==
  (autosave.stage = "idle" /\ manualSave.stage = "idle") =>
    (savedProject = edits \/ dirtyRef)

\* C28: after any sequence of thumbnail clicks (plain, Ctrl/Cmd, Shift),
\* previous/next navigation and page changes, a current photo is a member of
\* the multi-selection.
C28_CurrentIsMultiSelected ==
  currentPhotoId # NoPhoto => currentPhotoId \in multiSelectedIds

\* C29: after any sequence of non-overlapping recent:add calls starting from
\* an empty or missing file, the stored list has at most 10 entries, no two
\* entries share the same (kind, path) key, and the entries are ordered most
\* recently added first, the entry just added at index 0.
C29_RecentListBoundedUniqueOrdered ==
  /\ Len(recentFile) <= 10
  /\ \A i, j \in DOMAIN recentFile :
       i # j => <<recentFile[i].kind, recentFile[i].path>>
                  # <<recentFile[j].kind, recentFile[j].path>>
  /\ \A i, j \in DOMAIN recentFile :
       i < j => recentFile[i].lastOpenedAt > recentFile[j].lastOpenedAt
  /\ adds > 0 => /\ recentFile # <<>>
                 /\ recentFile[1].lastOpenedAt = adds

\* C29 witness: more than ten different entries were added, a folder among
\* them, and the entry of the first call has dropped off the full list.
C29_Witness ==
  /\ adds > 10
  /\ Len(recentFile) = 10
  /\ \E i \in DOMAIN recentFile : recentFile[i].kind = "folder"
  /\ \A i \in DOMAIN recentFile :
       <<recentFile[i].kind, recentFile[i].path>> # <<"project", 1>>

\* The files in the output directory of run r.
OutputFiles(r) ==
  {f \in files :
     /\ f.path.root = outputRoot[r].root
     /\ f.path.folder = [stamp |-> outputRoot[r].stamp, n |-> outputRoot[r].n]}

\* C25: within one export run, two items with distinct relative paths are
\* never written to the same output path, so at Completed the number of
\* files in the output directory equals exported.
C25_OneFilePerExportedItem ==
  Completed("r1") =>
    Cardinality(OutputFiles("r1")) = result["r1"].exported

\* Both deliveries of the launch payload have come to their end.
BothDelivered ==
  /\ launchMessage.stage \in {"delivered", "dropped"}
  /\ payloadRequests # <<>>
  /\ \A i \in DOMAIN payloadRequests : payloadRequests[i].stage = "settled"

\* C30: a launch payload handed to a newly created main window is loaded
\* exactly once: the project load never runs twice, and it has run once when
\* both deliveries (launcher:get-payload and the message of did-finish-load)
\* have arrived, in either order.
C30_LaunchPayloadLoadedOnce ==
  /\ loads <= 1
  /\ BothDelivered => loads = 1

\* C30 witness: the message and the answer of launcher:get-payload both
\* carried the payload to the renderer, and the load was started once.
C30_Witness ==
  /\ launchMessage.stage = "delivered"
  /\ payloadRequests # <<>>
  /\ payloadRequests[1].stage = "settled"
  /\ payloadRequests[1].reply # NoLaunch
  /\ loads = 1

====
